---- MODULE Spec2Model ----
(***************************************************************************)
(* A model of knorm's query engine: the Query object (option setters,      *)
(* join attachment, clause compilation into a builder, the fetch and count *)
(* operations, the row parser) and the Grouping expression renderer.       *)
(***************************************************************************)
EXTENDS Integers, Sequences, FiniteSets, TLC

VARIABLES
    queries,    \* the Query objects: query id -> its fields
    builders,   \* the builder objects: builder id -> the calls made on it, in order
    pc,         \* per query: "idle"; awaiting the builder's "select" or "first";
                \* then "fetched" or "counted" (the call resolved), "failed" (it
                \* rejected), "refused" (fetch on a child), "overflow" (call stack)
    result,     \* per query: what its operation resolved or rejected with
    rows,       \* what the builder's terminal call resolved with: the flat rows
                \* of a select, the count row of a first
    ncalls,     \* how many option setters have been called
    thrown,     \* the error the last setter call threw synchronously (NoError if none)
    grouping,   \* the Grouping under render
    rendered,   \* what getWhere returned for it
    optionValues, \* the values of the Options instance: option name -> stored value
    returned,   \* what the last Options setter call returned
    registry,   \* the fields' models and references, and the models' derived maps
    instance    \* per query: the hooks its insert or update called on the instance

vars == <<queries, builders, pc, result, rows, ncalls, thrown, grouping, rendered,
          optionValues, returned, registry, instance>>

---------------------------------------------------------------------------
\* Bounds

\* Query objects constructed in one scenario.
NQ == 4
\* Option-setter calls (with, require, first) in one scenario.
MaxCalls == 3
\* Flat rows handed to one _parseRows call.
MaxRows == 3
\* Items in one Grouping value list.
MaxItems == 2

Q == 1..NQ

\* Identity values of result rows; NULL is SQL null (an unmatched left join).
NULL == 0
Ids == {1, 2}

\* _limit / _offset not set (undefined).
UNDEFINED == -1

---------------------------------------------------------------------------
\* The schema of the test suite: Image.userId -> User.id,
\* Image.categoryId -> ImageCategory.id, Message.senderId/receiverId -> User.id.
\* Beside it, a model that references itself (Node.parentId -> Node.id) and
\* two models that reference each other (Account.profileId -> Profile.id,
\* Profile.accountId -> Account.id).

ModelNames == {"User", "Image", "ImageCategory", "Message", "Node", "Account", "Profile"}

\* Model.referenced: the models holding a field that references a field of m.
referenced(m) ==
    CASE m = "User" -> {"Image", "Message"}
      [] m = "ImageCategory" -> {"Image"}
      [] m = "Node" -> {"Node"}
      [] m = "Account" -> {"Profile"}
      [] m = "Profile" -> {"Account"}
      [] OTHER -> {}

table(m) ==
    CASE m = "User" -> "user"
      [] m = "Image" -> "image"
      [] m = "ImageCategory" -> "image_category"
      [] m = "Node" -> "node"
      [] m = "Account" -> "account"
      [] m = "Profile" -> "profile"
      [] OTHER -> "message"

\* lodash camelCase of a model name.
camelCase(m) ==
    CASE m = "User" -> "user"
      [] m = "Image" -> "image"
      [] m = "ImageCategory" -> "imageCategory"
      [] m = "Node" -> "node"
      [] m = "Account" -> "account"
      [] m = "Profile" -> "profile"
      [] OTHER -> "message"

idField == "id"

\* The model each query object of the scenario is constructed with.
modelOf(q) ==
    CASE q = 1 -> "User"
      [] q = 2 -> "Image"
      [] q = 3 -> "ImageCategory"
      [] q = 4 -> "Image"
      [] OTHER -> "Message"

EmptyMap == [x \in {} |-> 0]

\* A Field of a model.
Field(model, name) == [model |-> model, name |-> name]

\* Object.keys(model.fields), in definition order (id comes from Model.fields).
modelFields(m) ==
    CASE m = "User" -> <<"id", "name">>
      [] m = "Image" -> <<"id", "userId", "categoryId">>
      [] m = "ImageCategory" -> <<"id", "name">>
      [] m = "Node" -> <<"id", "parentId">>
      [] m = "Account" -> <<"id", "profileId">>
      [] m = "Profile" -> <<"id", "accountId">>
      [] OTHER -> <<"id", "senderId", "receiverId">>

\* field.column: the snake_case column of a field
column(field) ==
    CASE field.name = "userId" -> "user_id"
      [] field.name = "categoryId" -> "category_id"
      [] field.name = "senderId" -> "sender_id"
      [] field.name = "receiverId" -> "receiver_id"
      [] field.name = "parentId" -> "parent_id"
      [] field.name = "profileId" -> "profile_id"
      [] field.name = "accountId" -> "account_id"
      [] OTHER -> field.name

\* field.references: the field a foreign-key field points to
references(field) ==
    CASE field.model = "Image" /\ field.name = "userId" -> Field("User", "id")
      [] field.model = "Image" /\ field.name = "categoryId" -> Field("ImageCategory", "id")
      [] field.model = "Message" /\ field.name \in {"senderId", "receiverId"} ->
             Field("User", "id")
      [] field.model = "Node" /\ field.name = "parentId" -> Field("Node", "id")
      [] field.model = "Account" /\ field.name = "profileId" -> Field("Profile", "id")
      [] field.model = "Profile" /\ field.name = "accountId" -> Field("Account", "id")
      [] OTHER -> Field("", "")

\* Model.referenced[other] of model m, when other \in referenced(m): per
\* referenced field of m, the fields of `other` that reference it.
referencedBy(m, other) ==
    CASE m = "User" /\ other = "Image" -> [id |-> <<Field("Image", "userId")>>]
      [] m = "User" /\ other = "Message" ->
             [id |-> <<Field("Message", "senderId"), Field("Message", "receiverId")>>]
      [] m = "ImageCategory" /\ other = "Image" -> [id |-> <<Field("Image", "categoryId")>>]
      [] m = "Node" /\ other = "Node" -> [id |-> <<Field("Node", "parentId")>>]
      [] m = "Account" /\ other = "Profile" -> [id |-> <<Field("Profile", "accountId")>>]
      [] m = "Profile" /\ other = "Account" -> [id |-> <<Field("Account", "profileId")>>]
      [] OTHER -> EmptyMap

\* new Query(model), as query object q
Query(model, q) ==
    [ model        |-> model,
      table        |-> table(model),
      alias        |-> <<table(model), 0>>,
      index        |-> 0,
      builder      |-> q,
      _fields      |-> <<[field |-> Field(model, idField), alias |-> idField]>>,
      _returning   |-> <<[field |-> Field(model, idField), alias |-> idField]>>,
      _hasFields   |-> FALSE,
      _hasReturning |-> FALSE,
      _orderBy     |-> <<>>,
      _groupBy     |-> <<>>,
      _with        |-> <<>>,
      _on          |-> <<>>,
      _where       |-> <<>>,
      _whereNot    |-> <<>>,
      _orWhere     |-> <<>>,
      _orWhereNot  |-> <<>>,
      _having      |-> <<>>,
      _havingNot   |-> <<>>,
      _orHaving    |-> <<>>,
      _orHavingNot |-> <<>>,
      _transaction |-> [set |-> FALSE, forUpdate |-> FALSE, forShare |-> FALSE],
      _as          |-> "",
      _require     |-> FALSE,
      _first       |-> FALSE,
      _limit       |-> UNDEFINED,
      _offset      |-> UNDEFINED,
      isChild      |-> FALSE,
      parent       |-> 0,
      _parsedRows  |-> <<>>,
      _parsedData  |-> EmptyMap ]

\* The query objects of the scenario.
NewQuery(q) == Query(modelOf(q), q)

---------------------------------------------------------------------------
\* Query.prototype.with

\* The reference check of with(): one of the two models is referenced by the other.
\* The reference test looking in the parent's direction only.
HasForwardReference(qs, p, c) == qs[c].model \in referenced(qs[p].model)

HasReference(qs, p, c) ==
    \/ qs[c].model \in referenced(qs[p].model)
    \/ qs[p].model \in referenced(qs[c].model)

with(qs, p, c) ==
    [qs EXCEPT ![c].isChild = TRUE,
               ![c].parent = p,
               ![p]._with = Append(@, c)]

---------------------------------------------------------------------------
\* Clause compilation: _prepareBuilder and _addWith. The state threaded
\* through the recursion is [qs, bs, overflow]: the query objects, the
\* builders' call logs, and whether the call stack was exhausted (a join
\* graph with a cycle recurses without end).

Call(m, q) == [m |-> m, q |-> q]
CallWith(m, q, args) == [m |-> m, q |-> q, args |-> args]

Log(st, b, c) == [st EXCEPT !.bs[b] = Append(@, c)]

\* The options _prepareBuilder is called with.
FetchOptions ==
    [forInsert |-> FALSE, forUpdate |-> FALSE, forDelete |-> FALSE, includeFields |-> TRUE]
CountOptions == [FetchOptions EXCEPT !.includeFields = FALSE]
InsertOptions == [FetchOptions EXCEPT !.forInsert = TRUE]
UpdateOptions == [FetchOptions EXCEPT !.forUpdate = TRUE]
DeleteOptions == [FetchOptions EXCEPT !.forDelete = TRUE]

\* The alias of a { field, alias } entry; "" when the entry has none.
AliasOf(entry) == IF "alias" \in DOMAIN entry THEN entry.alias ELSE ""

\* `${this.alias}.${field.column}`, with ` as ${this.alias}.${alias}` when
\* an alias is given
_getColumn(qs, q, field, alias) ==
    [of |-> qs[q].alias, column |-> column(field), as |-> alias]

_getColumns(qs, q, entries) ==
    [i \in 1..Len(entries) |-> _getColumn(qs, q, entries[i].field, AliasOf(entries[i]))]

_getFieldsWithAliases(qs, q) ==
    [i \in 1..Len(modelFields(qs[q].model)) |->
        [field |-> Field(qs[q].model, modelFields(qs[q].model)[i]),
         alias |-> modelFields(qs[q].model)[i]]]

_addTransaction(st, q) ==
    LET t  == st.qs[q]._transaction
        b  == st.qs[q].builder
        s1 == Log(st, b, Call("transacting", q))
        s2 == IF t.forUpdate THEN Log(s1, b, Call("forUpdate", q)) ELSE s1
    IN  IF t.forShare THEN Log(s2, b, Call("forShare", q)) ELSE s2

_addFields(st, q) ==
    Log(st, st.qs[q].builder,
        CallWith("columns", q, [columns |-> _getColumns(st.qs, q, st.qs[q]._fields)]))

_addReturning(st, q) ==
    Log(st, st.qs[q].builder,
        CallWith("returning", q, [columns |-> _getColumns(st.qs, q, st.qs[q]._returning)]))

\* The builder method a where or having list is compiled with.
BuilderMethod(key) ==
    CASE key = "_where" -> "where"
      [] key = "_whereNot" -> "whereNot"
      [] key = "_orWhere" -> "orWhere"
      [] key = "_orWhereNot" -> "orWhereNot"
      [] key = "_having" -> "having"
      [] key = "_havingNot" -> "havingNot"
      [] key = "_orHaving" -> "orHaving"
      [] OTHER -> "orHavingNot"

\* The builder call of one { field, value } entry of a where or having
\* list: the method is `key` itself or `key` with the suffix Null or In,
\* and an operator is passed for a { operator, value } object and for
\* every plain value of the having family.
WhereCall(qs, q, key, entry) ==
    LET value  == entry.value
        having == key \in {"_having", "_havingNot", "_orHaving", "_orHavingNot"}
    IN  CallWith(BuilderMethod(key), q,
            [column |-> _getColumn(qs, q, entry.field, ""),
             suffix |-> CASE value.t = "null" -> "Null"
                          [] value.t = "array" -> "In"
                          [] OTHER -> "",
             operator |-> CASE value.t \in {"null", "array"} -> ""
                            [] value.t = "operator" -> value.operator
                            [] having -> "="
                            [] OTHER -> "",
             value |-> IF value.t = "operator" THEN value.value ELSE value])

RECURSIVE LogAll(_, _, _, _)
\* The calls cs made on builder b in order, from the k-th on.
LogAll(st, b, cs, k) ==
    IF k > Len(cs) THEN st ELSE LogAll(Log(st, b, cs[k]), b, cs, k + 1)

\* _addWhere ... _addOrHavingNot, behind their `if (this._<key>.length)`
_addWhereOrHaving(st, q, key) ==
    LET entries == st.qs[q][key]
    IN  LogAll(st, st.qs[q].builder,
               [i \in 1..Len(entries) |-> WhereCall(st.qs, q, key, entries[i])], 1)

_addOrderBy(st, q) ==
    LET entries == st.qs[q]._orderBy
    IN  LogAll(st, st.qs[q].builder,
               [i \in 1..Len(entries) |->
                   CallWith("orderBy", q,
                            [column |-> _getColumn(st.qs, q, entries[i].field, ""),
                             direction |-> entries[i].direction])], 1)

_addGroupBy(st, q) ==
    Log(st, st.qs[q].builder,
        CallWith("groupBy", q, [columns |-> _getColumns(st.qs, q, st.qs[q]._groupBy)]))

\* `if (this._first) { this._limit = 1; }`
LimitFirst(st, q) == IF st.qs[q]._first THEN [st EXCEPT !.qs[q]._limit = 1] ELSE st

\* `if (this._limit !== undefined) { this._addLimit(); }`
_addLimit(st, q) ==
    IF st.qs[q]._limit # UNDEFINED
    THEN Log(st, st.qs[q].builder, CallWith("limit", q, [limit |-> st.qs[q]._limit]))
    ELSE st

\* `if (this._offset !== undefined) { this._addOffset(); }`
_addOffset(st, q) ==
    IF st.qs[q]._offset # UNDEFINED
    THEN Log(st, st.qs[q].builder, CallWith("offset", q, [offset |-> st.qs[q]._offset]))
    ELSE st

\* first, limit and offset
AddLimit(st, q) == _addOffset(_addLimit(LimitFirst(st, q), q), q)

\* obj[key] = value on an object kept as its <<key, value>> entries in
\* insertion order: an existing key keeps its place and takes the value.
SetKey(obj, key, value) ==
    IF \E i \in 1..Len(obj) : obj[i][1] = key
    THEN [i \in 1..Len(obj) |-> IF obj[i][1] = key THEN <<key, value>> ELSE obj[i]]
    ELSE Append(obj, <<key, value>>)

RECURSIVE concatFields(_)
\* on.push(...fields) over the lists in order
concatFields(lists) ==
    IF Len(lists) = 0 THEN <<>> ELSE lists[1] \o concatFields(Tail(lists))

\* Whether model c holds references to model p (p.referenced[c] is set).
IsReferencedBy(p, c) == c \in referenced(p)

\* The fields the ON clause of child c of q is built from; a field with no
\* name stands for the TypeError of spreading an undefined bucket.
OnFields(qs, q, c) ==
    LET forward == IsReferencedBy(qs[q].model, qs[c].model)
        reverse == IsReferencedBy(qs[c].model, qs[q].model)
        bucket  == IF forward THEN referencedBy(qs[q].model, qs[c].model)
                   ELSE referencedBy(qs[c].model, qs[q].model)
        keys    == modelFields(IF forward THEN qs[q].model ELSE qs[c].model)
        named   == SelectSeq(keys, LAMBDA n : n \in DOMAIN bucket)
        on_     == qs[c]._on
    IN  IF Len(on_) > 0
        THEN IF reverse
             THEN IF \E i \in 1..Len(on_) :
                        on_[i].field.name \notin DOMAIN referencedBy(qs[c].model, qs[q].model)
                  THEN <<Field("", "")>>
                  ELSE concatFields([i \in 1..Len(on_) |->
                           referencedBy(qs[c].model, qs[q].model)[on_[i].field.name]])
             ELSE [i \in 1..Len(on_) |-> on_[i].field]
        ELSE concatFields([i \in 1..Len(named) |-> bucket[named[i]]])

RECURSIVE OnColumns(_, _, _, _, _, _)
\* on.reduce(...) from the k-th field on: the ON pairs as the entries of
\* the object they are collected in.
OnColumns(qs, q, c, on_, k, columns) ==
    IF k > Len(on_) THEN columns
    ELSE LET fromColumn == column(on_[k])
             toColumn   == column(references(on_[k]))
             isReverseReference == IsReferencedBy(qs[c].model, qs[q].model)
             left  == [of |-> qs[c].alias,
                       column |-> IF isReverseReference THEN toColumn ELSE fromColumn]
             right == [of |-> qs[q].alias,
                       column |-> IF isReverseReference THEN fromColumn ELSE toColumn]
         IN  OnColumns(qs, q, c, on_, k + 1, SetKey(columns, left, right))

\* `if (!query._as) { query._as = camelCase(query.model.name); }`
DefaultAs(st, c) ==
    IF st.qs[c]._as = "" THEN [st EXCEPT !.qs[c]._as = camelCase(st.qs[c].model)] ELSE st

\* `++this.index`
NextIndex(st, q) == [st EXCEPT !.qs[q].index = @ + 1]

\* `query.index = ++this.index; query.alias = `t${query.index}``
ChildIndex(st, q, c) ==
    [[st EXCEPT !.qs[c].index = st.qs[q].index] EXCEPT !.qs[c].alias = <<"t", st.qs[q].index>>]

\* The child left on the builder it was constructed with.
ChildOwnBuilder(st, q, c) == st

\* `query.builder = this.builder`
ChildBuilder(st, q, c) == [st EXCEPT !.qs[c].builder = st.qs[q].builder]

\* `this.builder[method](`${query.table} as ${query.alias}`, onColumns)`
\* over the fields on_; a field with no reference throws a TypeError.
JoinCall(st, q, c, on_) ==
    IF \E i \in 1..Len(on_) : references(on_[i]).name = ""
    THEN [st EXCEPT !.typeError = TRUE]
    ELSE Log(st, st.qs[q].builder,
             CallWith(IF st.qs[c]._require THEN "innerJoin" ELSE "leftJoin", c,
                      [table |-> st.qs[c].table, as |-> st.qs[c].alias,
                       on |-> OnColumns(st.qs, q, c, on_, 1, <<>>)]))

\* The join call of child c once its key, index, alias and builder are set.
JoinOn(st, q, c) == JoinCall(st, q, c, OnFields(st.qs, q, c))

\* The head of one _addWith iteration with the child left on its own
\* builder.
JoinChildOwnBuilder(st, q, c) ==
    JoinOn(ChildIndex(NextIndex(DefaultAs(st, c), q), q, c), q, c)

\* The head of one _addWith iteration: the child's key, index, alias and
\* builder, and the join call with its ON pairs.
JoinChild(st, q, c) ==
    JoinOn(ChildBuilder(ChildIndex(NextIndex(DefaultAs(st, c), q), q, c), q, c), q, c)

RECURSIVE _prepareBuilder(_, _, _, _)
RECURSIVE _addWith(_, _, _, _, _)

\* `query._prepareBuilder(options)` on a child whose join call was made
PrepareChild(st, c, options, depth) ==
    IF st.typeError THEN st ELSE _prepareBuilder(st, c, options, depth + 1)

\* this._with.forEach(...), from the k-th child on
_addWith(st, q, options, k, depth) ==
    IF st.overflow \/ st.typeError \/ k > Len(st.qs[q]._with)
    THEN st
    ELSE _addWith(PrepareChild(JoinChild(st, q, st.qs[q]._with[k]),
                               st.qs[q]._with[k], options, depth),
                  q, options, k + 1, depth)

\* `if (this._<key>.length) { this._add<Key>(); }` for a where or having
\* list
AddIfAny(st, q, key) ==
    IF Len(st.qs[q][key]) > 0 THEN _addWhereOrHaving(st, q, key) ELSE st

AddGroupByIfAny(st, q) == IF Len(st.qs[q]._groupBy) > 0 THEN _addGroupBy(st, q) ELSE st

AddOrderByIfAny(st, q) == IF Len(st.qs[q]._orderBy) > 0 THEN _addOrderBy(st, q) ELSE st

\* The where family.
PrepareWhere(st, q) ==
    AddIfAny(AddIfAny(AddIfAny(AddIfAny(st, q, "_where"), q, "_whereNot"),
                      q, "_orWhere"), q, "_orWhereNot")

\* The having family.
PrepareHaving(st, q) ==
    AddIfAny(AddIfAny(AddIfAny(AddIfAny(st, q, "_having"), q, "_havingNot"),
                      q, "_orHaving"), q, "_orHavingNot")

\* order-by compiled ahead of group-by and the having family
PrepareOrderByFirst(st, q) == PrepareHaving(AddGroupByIfAny(AddOrderByIfAny(st, q), q), q)

\* group-by, the having family and order-by
PrepareGrouping(st, q) == AddOrderByIfAny(PrepareHaving(AddGroupByIfAny(st, q), q), q)

\* `if (!this.isChild && this._transaction) { this._addTransaction(); }`
PrepareTransaction(st, q) ==
    IF ~st.qs[q].isChild /\ st.qs[q]._transaction.set THEN _addTransaction(st, q) ELSE st

\* The returning list, all fields when returning() was never called.
DefaultReturning(st, q) ==
    IF st.qs[q]._hasReturning THEN st
    ELSE [st EXCEPT !.qs[q]._returning = _getFieldsWithAliases(st.qs, q)]

\* The transaction and, for a write, the returning columns.
PrepareReturning(st, q, options) ==
    IF options.forInsert \/ options.forUpdate \/ options.forDelete
    THEN _addReturning(DefaultReturning(PrepareTransaction(st, q), q), q)
    ELSE PrepareTransaction(st, q)

\* The field list, all fields when fields() was never called.
DefaultFields(st, q) ==
    IF st.qs[q]._hasFields THEN st
    ELSE [st EXCEPT !.qs[q]._fields = _getFieldsWithAliases(st.qs, q)]

\* `if (options.includeFields !== false) { ...; this._addFields(); }`
PrepareFields(st, q, options) ==
    IF options.includeFields THEN _addFields(DefaultFields(st, q), q) ELSE st

\* `if (this._with.length) { this._addWith(options); }`
PrepareWith(st, q, options, depth) ==
    IF Len(st.qs[q]._with) > 0 THEN _addWith(st, q, options, 1, depth) ELSE st

\* `if (this.isChild) { return this; }`, then first, limit and offset
PrepareLimit(st, q) == IF st.qs[q].isChild THEN st ELSE AddLimit(st, q)

\* What follows the joins, unless preparing them failed.
AfterWith(st, q) ==
    IF st.overflow \/ st.typeError THEN st
    ELSE PrepareLimit(PrepareGrouping(st, q), q)

\* After the where family: `if (options.forUpdate || options.forDelete)
\* { return this; }`, then the fields, the joins and the rest.
PrepareSelect(st, q, options, depth) ==
    IF options.forUpdate \/ options.forDelete
    THEN st
    ELSE AfterWith(PrepareWith(PrepareFields(st, q, options), q, options, depth), q)

\* After the returning columns: `if (options.forInsert) { return this; }`,
\* then the where family and the rest.
PrepareUpdate(st, q, options, depth) ==
    IF options.forInsert THEN st
    ELSE PrepareSelect(PrepareWhere(st, q), q, options, depth)

_prepareBuilder(st, q, options, depth) ==
    IF depth > NQ
    THEN [st EXCEPT !.overflow = TRUE]
    ELSE PrepareUpdate(PrepareReturning(st, q, options), q, options, depth)

\* Every query reachable from q over _with (q included), when no cycle exists.
RECURSIVE Tree(_, _, _)
Tree(qs, q, fuel) ==
    IF fuel = 0
    THEN {q}
    ELSE {q} \cup UNION { Tree(qs, qs[q]._with[k], fuel - 1) : k \in 1..Len(qs[q]._with) }

---------------------------------------------------------------------------
\* The row parser: _hasData, _parseData, _parseRows.
\* A flat row maps a column <<alias, field>> to a value; a parsed record is
\* addressed by <<query, identity>> and holds, per child key, a value.

Undefined == [t |-> "undefined"]
Rec(q, id) == [t |-> "rec", q |-> q, id |-> id]
Arr(items) == [t |-> "arr", items |-> items]

Get(record, key) == IF key \in DOMAIN record THEN record[key] ELSE Undefined

Put(record, key, value) ==
    [k \in DOMAIN record \cup {key} |-> IF k = key THEN value ELSE record[k]]

\* The reduce of _parseRows: columns split at the dot and grouped by alias.
SplitRow(row) ==
    LET aliases == { col[1] : col \in DOMAIN row }
    IN  [a \in aliases |->
            [f \in { col[2] : col \in { c \in DOMAIN row : c[1] = a } } |-> row[<<a, f>>]]]

_hasData(qs, q, data) ==
    \E f \in DOMAIN data[qs[q].alias] : data[qs[q].alias][f] # NULL

\* Memoize without the lookup: a record is materialised for every row.
MemoizeAlways(qs, q, id) ==
    [qs EXCEPT ![q]._parsedData = Put(@, id, EmptyMap),
               ![q]._parsedRows = Append(@, id)]

\* The memo lookup and materialisation at the head of _parseData.
Memoize(qs, q, id) ==
    IF id \in DOMAIN qs[q]._parsedData
    THEN qs
    ELSE [qs EXCEPT ![q]._parsedData = Put(@, id, EmptyMap),
                    ![q]._parsedRows = Append(@, id)]

\* parsedData[query._as] = ... : the attachment of one nested record.
Attach(qs, q, id, key, nestedData) ==
    LET prior == Get(qs[q]._parsedData[id], key)
        value == IF prior.t # "undefined" THEN Arr(<<prior, nestedData>>) ELSE nestedData
    IN  [qs EXCEPT ![q]._parsedData = Put(@, id, Put(@[id], key, value))]

RECURSIVE _parseData(_, _, _)
RECURSIVE ParseChildren(_, _, _, _)

\* const id = instanceData[this.model.idField]
IdOf(qs, q, data) == data[qs[q].alias][idField]

\* this._with.forEach(...) of _parseData, from the k-th child on
ParseChildren(qs, q, data, k) ==
    IF k > Len(qs[q]._with)
    THEN qs
    ELSE IF _hasData(qs, qs[q]._with[k], data)
         THEN ParseChildren(
                  Attach(_parseData(qs, qs[q]._with[k], data), q, IdOf(qs, q, data),
                         qs[qs[q]._with[k]]._as,
                         Rec(qs[q]._with[k], IdOf(qs, qs[q]._with[k], data))),
                  q, data, k + 1)
         ELSE ParseChildren(qs, q, data, k + 1)

\* _parseData returning the cached record at once on a memo hit, without
\* looking at the record's children again.
ParseDataOnceOnly(qs, q, data) ==
    IF IdOf(qs, q, data) \in DOMAIN qs[q]._parsedData
    THEN qs
    ELSE ParseChildren(Memoize(qs, q, IdOf(qs, q, data)), q, data, 1)

\* The query objects after _parseData(data) on q; what it returns is
\* Rec(q, IdOf(qs, q, data)).
_parseData(qs, q, data) ==
    ParseChildren(Memoize(qs, q, IdOf(qs, q, data)), q, data, 1)

RECURSIVE _parseRows(_, _, _, _)
\* rows.forEach(...), from the k-th row on
_parseRows(qs, q, rs, k) ==
    IF k > Len(rs)
    THEN qs
    ELSE _parseRows(_parseData(qs, q, SplitRow(rs[k])), q, rs, k + 1)

---------------------------------------------------------------------------
\* Operation results.

NoResult == [k |-> "none"]
Rejected(name, q) == [k |-> "rejected", error |-> name, by |-> q]
Resolved(value) == [k |-> "resolved", value |-> value]

\* The error a rejected builder call gives.
DriverError == [t |-> "error", message |-> "driver error"]

\* _throw(name, error) on query q: `new this.model.errors[name](error)`,
\* the rejection with the arguments its constructor was given.
_throw(q, name, error) ==
    [k |-> "rejected", error |-> name, by |-> q, args |-> <<error>>]
Null == [t |-> "null"]
List(items) == [t |-> "list", items |-> items]
Number(n) == [t |-> "number", n |-> n]

NoGrouping == [k |-> "none"]
NotRendered == [k |-> "none"]

\* The Options instance after construction (this.values = {}), and no setter
\* called on it yet.
NoValues == [x \in {} |-> 0]
NotCalled == "not called"

\* No instance has had a hook called.
NoInstances == [q \in Q |-> <<>>]

\* No field constructed.
NoRegistry == [model |-> EmptyMap, target |-> EmptyMap, references |-> {}, referenced |-> {}]

\* What a setter threw: `new Error(...)` with the model and the name its
\* message gives.
NoError == [k |-> "none"]
UsageError(message, model, name) ==
    [k |-> "error", message |-> message, model |-> model, name |-> name]

\* _maybeThrowFetchRequireErrors: the error it throws, "" when it returns.
NoThrow == [error |-> "", by |-> 0]
Throw(name, q) == [error |-> name, by |-> q]

RECURSIVE _maybeThrowFetchRequireErrors(_, _)
RECURSIVE MaybeThrowChildren(_, _, _)

\* this._with.forEach(query => query._maybeThrowFetchRequireErrors())
MaybeThrowChildren(qs, q, k) ==
    IF k > Len(qs[q]._with)
    THEN NoThrow
    ELSE LET t == _maybeThrowFetchRequireErrors(qs, qs[q]._with[k])
         IN  IF t.error # "" THEN t ELSE MaybeThrowChildren(qs, q, k + 1)

\* The require check of the fetched query alone, its joined queries ignored.
MaybeThrowOwnOnly(qs, q) ==
    IF qs[q]._require
    THEN Throw(IF qs[q]._first THEN "RowNotFoundError" ELSE "RowsNotFoundError", q)
    ELSE NoThrow

_maybeThrowFetchRequireErrors(qs, q) ==
    IF qs[q]._require
    THEN IF qs[q].isChild
         THEN Throw("RowsNotFoundError", q)
         ELSE Throw(IF qs[q]._first THEN "RowNotFoundError" ELSE "RowsNotFoundError", q)
    ELSE MaybeThrowChildren(qs, q, 1)

\* What fetch returns from the parsed rows.
FetchValue(qs, q) ==
    LET parsedRows == [k \in 1..Len(qs[q]._parsedRows) |-> Rec(q, qs[q]._parsedRows[k])]
    IN  IF qs[q]._first THEN parsedRows[1] ELSE List(parsedRows)

---------------------------------------------------------------------------
\* The scenario: option setters, then one operation.

Idle == \A q \in Q : pc[q] = "idle"

Init ==
    /\ queries = [q \in Q |-> NewQuery(q)]
    /\ builders = [q \in Q |-> <<>>]
    /\ pc = [q \in Q |-> "idle"]
    /\ result = [q \in Q |-> NoResult]
    /\ rows = <<>>
    /\ ncalls = 0
    /\ thrown = NoError
    /\ grouping = NoGrouping
    /\ rendered = NotRendered
    /\ optionValues = NoValues
    /\ returned = NotCalled
    /\ registry = NoRegistry
    /\ instance = NoInstances

\* p.with(c)
With(p, c) ==
    /\ Idle
    /\ ncalls < MaxCalls
    /\ ncalls' = ncalls + 1
    /\ IF HasReference(queries, p, c)
       THEN /\ queries' = with(queries, p, c)
            /\ thrown' = NoError
       ELSE /\ queries' = queries
            /\ thrown' = UsageError("has no references to", queries[p].model, queries[c].model)
    /\ UNCHANGED <<builders, pc, result, rows, grouping, rendered, optionValues, returned,
                   registry, instance>>

\* q.require(b)
Require(q, b) ==
    /\ Idle
    /\ ncalls < MaxCalls
    /\ ncalls' = ncalls + 1
    /\ queries' = [queries EXCEPT ![q]._require = b]
    /\ thrown' = NoError
    /\ UNCHANGED <<builders, pc, result, rows, grouping, rendered, optionValues, returned,
                   registry, instance>>

\* q.first(b)
First(q, b) ==
    /\ Idle
    /\ ncalls < MaxCalls
    /\ ncalls' = ncalls + 1
    /\ queries' = [queries EXCEPT ![q]._first = b]
    /\ thrown' = NoError
    /\ UNCHANGED <<builders, pc, result, rows, grouping, rendered, optionValues, returned,
                   registry, instance>>

\* The state a compilation starts from.
Compiling(qs, bs) == [qs |-> qs, bs |-> bs, overflow |-> FALSE, typeError |-> FALSE]

\* What an operation does with its compiled clauses st: the builder
\* calls cs and the await at pc, unless compiling threw.
Await(qs, bs, q, st, cs, pc_) ==
    IF st.overflow
    THEN [qs |-> qs, bs |-> bs, pc |-> "overflow", result |-> Rejected("RangeError", q)]
    ELSE IF st.typeError
    THEN [qs |-> st.qs, bs |-> st.bs, pc |-> "failed", result |-> Rejected("TypeError", q)]
    ELSE [qs |-> st.qs,
          bs |-> [st.bs EXCEPT ![st.qs[q].builder] = @ \o cs],
          pc |-> pc_, result |-> NoResult]

\* The head of fetch without its child check.
FetchHeadUnchecked(qs, bs, q) ==
    Await(qs, bs, q, _prepareBuilder(Compiling(qs, bs), q, FetchOptions, 1),
          <<Call("select", q)>>, "select")

\* The state after the synchronous head of q.fetch(), up to the await of
\* builder.select().
FetchHead(qs, bs, q) ==
    IF qs[q].isChild
    THEN [qs |-> qs, bs |-> bs, pc |-> "refused",
          result |-> Rejected("Error: Cannot fetch from a child query", q)]
    ELSE Await(qs, bs, q, _prepareBuilder(Compiling(qs, bs), q, FetchOptions, 1),
               <<Call("select", q)>>, "select")

\* The operation of q runs its synchronous head h.
Begin(q, h) ==
    /\ queries' = h.qs
    /\ builders' = h.bs
    /\ pc' = [pc EXCEPT ![q] = h.pc]
    /\ result' = [result EXCEPT ![q] = h.result]

\* q.fetch(), up to its await
Fetch(q) ==
    /\ Idle
    /\ Begin(q, FetchHead(queries, builders, q))
    /\ UNCHANGED <<rows, ncalls, thrown, grouping, rendered, optionValues, returned, registry,
                   instance>>

\* builder.select() resolves with rs: the rest of q.fetch()
FetchResolve(q, rs) ==
    /\ pc[q] = "select"
    /\ pc' = [pc EXCEPT ![q] = "fetched"]
    /\ rows' = rs
    /\ IF Len(rs) = 0
       THEN LET t == _maybeThrowFetchRequireErrors(queries, q)
            IN  /\ queries' = queries
                /\ result' = [result EXCEPT ![q] =
                       IF t.error # "" THEN Rejected(t.error, t.by)
                       ELSE IF queries[q]._first THEN Resolved(Null)
                       ELSE Resolved(List(<<>>))]
       ELSE LET qs == _parseRows(queries, q, rs, 1)
            IN  /\ queries' = qs
                /\ result' = [result EXCEPT ![q] = Resolved(FetchValue(qs, q))]
    /\ UNCHANGED <<builders, ncalls, thrown, grouping, rendered, optionValues, returned,
                   registry, instance>>

\* builder.select() rejects: the catch of q.fetch()
FetchReject(q) ==
    /\ pc[q] = "select"
    /\ pc' = [pc EXCEPT ![q] = "failed"]
    /\ result' = [result EXCEPT ![q] = _throw(q, "FetchError", DriverError)]
    /\ UNCHANGED <<queries, builders, rows, ncalls, thrown, grouping, rendered,
                   optionValues, returned, registry, instance>>

\* The state after the synchronous head of q.count(), up to the await of
\* builder.first().
CountHead(qs, bs, q) ==
    Await(qs, bs, q, _prepareBuilder(Compiling(qs, bs), q, CountOptions, 1),
          <<Call("count", q), Call("first", q)>>, "first")

\* q.count(), up to its await
Count(q) ==
    /\ Idle
    /\ Begin(q, CountHead(queries, builders, q))
    /\ UNCHANGED <<rows, ncalls, thrown, grouping, rendered, optionValues, returned, registry,
                   instance>>

\* builder.first() resolves with the row {count: n}: the rest of q.count(),
\* which returns parseInt(row.count)
CountResolve(q, n) ==
    /\ pc[q] = "first"
    /\ pc' = [pc EXCEPT ![q] = "counted"]
    /\ rows' = <<[count |-> n]>>
    /\ result' = [result EXCEPT ![q] = Resolved(Number(n))]
    /\ UNCHANGED <<queries, builders, ncalls, thrown, grouping, rendered, optionValues,
                   returned, registry, instance>>

\* builder.first() rejects: the catch of q.count()
CountReject(q) ==
    /\ pc[q] = "first"
    /\ pc' = [pc EXCEPT ![q] = "failed"]
    /\ result' = [result EXCEPT ![q] = _throw(q, "CountError", DriverError)]
    /\ UNCHANGED <<queries, builders, rows, ncalls, thrown, grouping, rendered,
                   optionValues, returned, registry, instance>>

\* The columns of a statement compiled from q: the identity column of
\* every query of its join tree.
Columns(qs, q) == { <<qs[x].alias, idField>> : x \in Tree(qs, q, NQ) }

\* The results the scenario's database gives: none, or one row in which
\* every joined table matched.
ScenarioRows(qs, q) == { <<>>, <<[col \in Columns(qs, q) |-> 1]>> }

Next ==
    \/ \E p \in Q, c \in Q : With(p, c)
    \/ \E q \in Q, b \in BOOLEAN : Require(q, b)
    \/ \E q \in Q, b \in BOOLEAN : First(q, b)
    \/ \E q \in Q : Fetch(q)
    \/ \E q \in Q : \E rs \in ScenarioRows(queries, q) : FetchResolve(q, rs)
    \/ \E q \in Q : FetchReject(q)
    \/ \E q \in Q : Count(q)
    \/ \E q \in Q, n \in 0..1 : CountResolve(q, n)
    \/ \E q \in Q : CountReject(q)

Spec == Init /\ [][Next]_vars

---------------------------------------------------------------------------
\* The row parser on its own: a compiled join tree awaiting its rows, and
\* every result a joined statement can give it.

EmptyBuilders == [q \in Q |-> <<>>]

RECURSIVE WithAll(_, _, _)
\* The with() calls of a scenario, in order: calls[k] = <<parent, child>>.
WithAll(qs, calls, k) ==
    IF k > Len(calls)
    THEN qs
    ELSE WithAll(with(qs, calls[k][1], calls[k][2]), calls, k + 1)

RECURSIVE NewQueries(_)
\* The query objects 1..n as constructed.
NewQueries(n) == IF n = 0 THEN <<>> ELSE Append(NewQueries(n - 1), NewQuery(n))

\* <<root, with() calls>>: User -> Image; Image -> ImageCategory -> Image (a
\* model joined twice in one chain); Image -> User and ImageCategory.
JoinShapes ==
    { <<1, << <<1, 2>> >> >>,
      <<2, << <<2, 3>>, <<3, 4>> >> >>,
      <<2, << <<2, 1>>, <<2, 3>> >> >> }

\* The rows a left or inner join can return: the root's identity is never
\* null, and below a null (unmatched) table everything is null.
JoinRows(qs, q) ==
    { r \in [Columns(qs, q) -> Ids \cup {NULL}] :
        /\ r[<<qs[q].alias, idField>>] # NULL
        /\ \A p \in Tree(qs, q, NQ) : \A k \in 1..Len(qs[p]._with) :
              r[<<qs[p].alias, idField>>] = NULL
                  => r[<<qs[qs[p]._with[k]].alias, idField>>] = NULL }

RowLists(qs, q) == UNION { [1..n -> JoinRows(qs, q)] : n \in 0..MaxRows }

InitParse ==
    \E s \in JoinShapes :
        LET h == FetchHead(WithAll(NewQueries(NQ), s[2], 1), EmptyBuilders, s[1])
        IN  /\ queries = h.qs
            /\ builders = h.bs
            /\ pc = [q \in Q |-> IF q = s[1] THEN h.pc ELSE "idle"]
            /\ result = [q \in Q |-> NoResult]
            /\ rows = <<>>
            /\ ncalls = Len(s[2])
            /\ thrown = NoError
            /\ grouping = NoGrouping
            /\ rendered = NotRendered
            /\ optionValues = NoValues
            /\ returned = NotCalled
            /\ registry = NoRegistry
            /\ instance = NoInstances

NextParse ==
    \E q \in { x \in Q : pc[x] = "select" } :
        \E rs \in RowLists(queries, q) : FetchResolve(q, rs)

SpecParse == InitParse /\ [][NextParse]_vars

---------------------------------------------------------------------------
\* Properties of the row parser (checked under SpecParse).

Range(s) == { s[k] : k \in 1..Len(s) }

RECURSIVE FirstSeen(_)
\* The distinct elements of s, in order of first appearance.
FirstSeen(s) ==
    IF Len(s) = 0
    THEN <<>>
    ELSE LET front == FirstSeen(SubSeq(s, 1, Len(s) - 1))
         IN  IF s[Len(s)] \in Range(front) THEN front ELSE Append(front, s[Len(s)])

\* The identity row r carries for query x.
RowId(r, x) == r[<<queries[x].alias, idField>>]

\* q's fetch has parsed the rows of a non-empty result.
Parsed(q) == pc[q] = "fetched" /\ Len(rows) > 0

\* The identities of child c matched to identity i of parent p, first seen first.
Matched(p, i, c) ==
    LET OfParent(r) == RowId(r, p) = i /\ RowId(r, c) # NULL
        sel == SelectSeq(rows, OfParent)
    IN  FirstSeen([k \in 1..Len(sel) |-> RowId(sel[k], c)])

\* What the claim expects under the child's key for the matched identities m.
ExpectedChildValue(c, m) ==
    IF Len(m) = 0 THEN Undefined
    ELSE IF Len(m) = 1 THEN Rec(c, m[1])
    ELSE Arr([k \in 1..Len(m) |-> Rec(c, m[k])])

\* C1: after _parseRows, every parent record holds under the child's key
\* nothing when no child matched, the single child record when one matched,
\* and a flat list of the k matched child records, first seen first, when
\* k >= 2 matched.
C1_ChildValueShape ==
    \A q \in Q : Parsed(q) =>
        \A p \in Tree(queries, q, NQ) : \A k \in 1..Len(queries[p]._with) :
            \A i \in DOMAIN queries[p]._parsedData :
                Get(queries[p]._parsedData[i], queries[queries[p]._with[k]]._as)
                    = ExpectedChildValue(queries[p]._with[k],
                                         Matched(p, i, queries[p]._with[k]))

\* C2: the list _parseRows returns holds exactly one record per distinct
\* identity of the query's own alias, in order of first appearance.
C2_OneRecordPerIdentity ==
    \A q \in Q : Parsed(q) =>
        LET ids == FirstSeen([k \in 1..Len(rows) |-> RowId(rows[k], q)])
        IN  /\ queries[q]._parsedRows = ids
            /\ ~queries[q]._first =>
                   result[q].value = List([k \in 1..Len(ids) |-> Rec(q, ids[k])])

\* C2 witness: a later row repeated a parent identity already seen, among
\* rows of two distinct parents.
C2_Witness ==
    \E q \in Q :
        /\ Parsed(q)
        /\ Len(queries[q]._parsedRows) = 2
        /\ \E j \in 1..Len(rows) : \E k \in 1..Len(rows) :
               j < k /\ RowId(rows[j], q) = RowId(rows[k], q)

\* C4 as claimed: a query's children are parsed only for the row that first
\* brings the record's identity; a row that re-encounters an identity does
\* not descend again, so every child record stems from a row in which its
\* parent's identity appeared for the first time.
C4_NoRedescent ==
    \A q \in Q : Parsed(q) =>
        \A p \in Tree(queries, q, NQ) : \A n \in 1..Len(queries[p]._with) :
            \A cid \in DOMAIN queries[queries[p]._with[n]]._parsedData :
                \E k \in 1..Len(rows) :
                    /\ RowId(rows[k], queries[p]._with[n]) = cid
                    /\ \A j \in 1..(k - 1) : RowId(rows[j], p) # RowId(rows[k], p)

\* C4 as amended: on a join chain in which a model repeats, parsing ends for
\* every row list, and each query object keeps in its own memo exactly one
\* record per identity its alias carried (a repeated identity reuses the
\* record), the children of a cached record being parsed again on every row.
C4_MemoPerQueryObject ==
    \A q \in Q : Parsed(q) =>
        \A x \in Tree(queries, q, NQ) :
            LET seen == { RowId(rows[k], x) : k \in 1..Len(rows) } \ {NULL}
            IN  /\ DOMAIN queries[x]._parsedData = seen
                /\ Range(queries[x]._parsedRows) = seen
                /\ Len(queries[x]._parsedRows) = Cardinality(seen)

\* C4 witness: in a chain where the root's model is joined again further
\* down, a row re-encounters an identity of the deeper query, which holds
\* its own record of an identity the root also holds.
C4_Witness ==
    \E q \in Q : \E x \in Tree(queries, q, NQ) :
        /\ Parsed(q)
        /\ x # q
        /\ queries[x].model = queries[q].model
        /\ \E j \in 1..Len(rows) : \E k \in 1..Len(rows) :
               j < k /\ RowId(rows[j], x) = RowId(rows[k], x) /\ RowId(rows[k], x) # NULL
        /\ DOMAIN queries[x]._parsedData \cap DOMAIN queries[q]._parsedData # {}

---------------------------------------------------------------------------
\* Properties of the scenario (checked under Spec).

\* A statement has been compiled from q and awaits its result.
Compiled(q) == pc[q] \in {"select", "first"}

\* C3: in one compiled statement the root's alias is its table name, every
\* joined query has an alias t<N> with N >= 1, and no two queries of the
\* statement share an alias.
C3_AliasesUnique ==
    \A q \in Q : Compiled(q) /\ ~queries[q].isChild =>
        /\ queries[q].alias = <<queries[q].table, 0>>
        /\ \A x \in Tree(queries, q, NQ) \ {q} :
               queries[x].alias[1] = "t" /\ queries[x].alias[2] >= 1
        /\ \A x \in Tree(queries, q, NQ) : \A y \in Tree(queries, q, NQ) :
               x # y => queries[x].alias # queries[y].alias

\* Some query of q's join tree (q included) has require set.
RequireInTree(q) == \E x \in Tree(queries, q, NQ) : queries[x]._require

\* C8: a fetch whose statement succeeds with zero rows rejects with a
\* rows-not-found error exactly when require is set on the root or on a
\* query of its join tree (the singular variant when the root has require
\* and first, the plural one otherwise and always for a child), and else
\* resolves to [] (null with first); with at least one row it resolves.
C8_FetchRequire ==
    \A q \in Q : pc[q] = "fetched" =>
        IF Len(rows) > 0 THEN result[q].k = "resolved"
        ELSE IF RequireInTree(q)
        THEN /\ result[q].k = "rejected"
             /\ result[q].error =
                    IF queries[q]._require /\ queries[q]._first
                    THEN "RowNotFoundError" ELSE "RowsNotFoundError"
             /\ result[q].by # q => result[q].error = "RowsNotFoundError"
             /\ queries[result[q].by]._require
        ELSE result[q] = Resolved(IF queries[q]._first THEN Null ELSE List(<<>>))

\* C8 witness: zero rows, require set only below the root, first set on the
\* root: the fetch rejected with the plural error raised for the child.
C8_Witness ==
    \E q \in Q :
        /\ pc[q] = "fetched" /\ Len(rows) = 0
        /\ ~queries[q]._require /\ queries[q]._first
        /\ result[q].k = "rejected" /\ result[q].by # q
        /\ result[q].error = "RowsNotFoundError"

\* C9: a count of zero rows resolves to 0 when require is not set and
\* rejects with the count verb's no-rows error when require is set.
C9_CountRequire ==
    \A q \in Q : pc[q] = "counted" /\ rows[1].count = 0 =>
        IF queries[q]._require
        THEN result[q].k = "rejected" /\ result[q].error # "CountError"
        ELSE result[q] = Resolved(Number(0))

\* C10: a query attached by with() stays marked as a child, and fetch()
\* called on it rejects with the usage error having compiled no clause and
\* made no call on any builder.
C10_ChildStaysChildAndCannotFetch ==
    [][ \A q \in Q :
          /\ queries[q].isChild => queries'[q].isChild
          /\ (queries[q].isChild /\ Fetch(q)) =>
                 /\ pc'[q] = "refused"
                 /\ result'[q] = Rejected("Error: Cannot fetch from a child query", q)
                 /\ builders' = builders
                 /\ queries' = queries ]_vars

\* C10 witness: a fetch was refused on a query attached to a parent.
C10_Witness ==
    \E q \in Q :
        /\ queries[q].isChild /\ queries[q].parent # 0
        /\ pc[q] = "refused"

\* Whether some field of model a references a field of model b.
Refers(a, b) ==
    \E i \in 1..Len(modelFields(a)) : references(Field(a, modelFields(a)[i])).model = b

\* C14: p.with(c) throws "'P' has no references to 'C'", naming the parent's
\* and the child's model, and changes no query and no builder when neither
\* model has a field referencing the other; when either model refers to the
\* other, in whichever direction, it throws nothing and appends c to p's
\* children.
C14_UnrelatedJoinThrows ==
    [][\A p \in Q, c \in Q :
          With(p, c) =>
              IF Refers(queries[p].model, queries[c].model)
                 \/ Refers(queries[c].model, queries[p].model)
              THEN /\ thrown' = NoError
                   /\ queries'[p]._with = Append(queries[p]._with, c)
                   /\ queries'[c].isChild
              ELSE /\ thrown' = UsageError("has no references to",
                                           queries[p].model, queries[c].model)
                   /\ queries' = queries
                   /\ builders' = builders]_vars

\* An image query has joined a user query, which its model refers to, and
\* a user query was then refused an image-category child.
C14_Witness ==
    /\ \E p \in Q, c \in Q :
           /\ queries[p].model = "Image" /\ queries[c].model = "User"
           /\ queries[p]._with = <<c>>
    /\ thrown = UsageError("has no references to", "User", "ImageCategory")
    /\ \A q \in Q : builders[q] = <<>>

---------------------------------------------------------------------------
\* Grouping (lib/Query/Sql/Grouping.js).  SQL text is a sequence of tokens; a
\* placeholder is the token "?".  A JavaScript value is a record tagged by its
\* kind: "scalar", "array", "object", "query", "condition", "raw", "grouping".

Scalar(v) == [t |-> "scalar", v |-> v]
Array(items) == [t |-> "array", items |-> items]
\* a plain object: its entries <<field, value>> in insertion order
Object(entries) == [t |-> "object", entries |-> entries]
Condition(type, field, value) ==
    [t |-> "condition", type |-> type, field |-> field, value |-> value]
Raw(sql, values) == [t |-> "raw", sql |-> sql, values |-> values]
\* a Query used as a subquery: its model's table and its where entries
Subquery(tbl, where) == [t |-> "query", table |-> tbl, where |-> where]
\* new Grouping({ type, value })
Grouping(type, value) == [t |-> "grouping", type |-> type, value |-> value]

Where(where, values) == [where |-> where, values |-> values]

\* Array.prototype.join on token sequences
RECURSIVE join(_, _)
join(parts, separator) ==
    IF Len(parts) = 0 THEN <<>>
    ELSE IF Len(parts) = 1 THEN parts[1]
    ELSE parts[1] \o <<separator>> \o join(Tail(parts), separator)

\* values.concat(...) over a sequence of value lists, in order
RECURSIVE concat(_)
concat(lists) ==
    IF Len(lists) = 0 THEN <<>> ELSE lists[1] \o concat(Tail(lists))

\* The column a field name renders to under the Sql instance of `sql`'s model.
Column(sql, field) ==
    CASE field = "id" -> "user.id"
      [] field = "name" -> "user.name"
      [] OTHER -> field

\* Condition.prototype.getWhere: the per-type template and its parameters.
ConditionGetWhere(this, sql) ==
    CASE this.type = "equalTo" ->
             Where(<<Column(sql, this.field), "=", "?">>, <<this.value>>)
      [] this.type = "like" ->
             Where(<<Column(sql, this.field), "LIKE", "?">>, <<this.value>>)
      [] OTHER ->
             Where(<<Column(sql, this.field), "IS NULL">>, <<>>)

\* new Sql(query).getSelect(): the subquery's statement and its parameters.
getSelect(query) ==
    LET conds == [i \in 1..Len(query.where) |->
                    ConditionGetWhere(Condition("equalTo", query.where[i][1],
                                                query.where[i][2]), query.table)]
    IN  [sql |-> <<"SELECT", "FROM", query.table>> \o
                 (IF Len(conds) = 0 THEN <<>>
                  ELSE <<"WHERE">> \o join([i \in 1..Len(conds) |-> conds[i].where], "AND")),
         values |-> concat([i \in 1..Len(conds) |-> conds[i].values])]

RECURSIVE getWhere(_, _)
RECURSIVE _getWhere(_, _)

\* getWhere with each item's values put in front of those gathered so far.
getWhereValuesPrepended(this, sql) ==
    LET value == IF this.value.t = "array" THEN this.value.items ELSE <<this.value>>
        items == [i \in 1..Len(value) |-> _getWhere(sql, value[Len(value) + 1 - i])]
        wheres == [i \in 1..Len(value) |-> _getWhere(sql, value[i]).where]
        values == concat([i \in 1..Len(value) |-> items[i].values])
    IN  IF Len(wheres) = 1
        THEN Where(wheres[1], values)
        ELSE Where(<<"(">> \o join(wheres, IF this.type = "and" THEN "AND" ELSE "OR")
                           \o <<")">>, values)

\* getWhere without the single-item return.
getWhereAlwaysWrapped(this, sql) ==
    LET value == IF this.value.t = "array" THEN this.value.items ELSE <<this.value>>
        items == [i \in 1..Len(value) |-> _getWhere(sql, value[i])]
        wheres == [i \in 1..Len(value) |-> items[i].where]
        values == concat([i \in 1..Len(value) |-> items[i].values])
    IN  Where(<<"(">> \o join(wheres, IF this.type = "and" THEN "AND" ELSE "OR")
                      \o <<")">>, values)

\* Grouping.prototype.getWhere
getWhere(this, sql) ==
    LET value == IF this.value.t = "array" THEN this.value.items ELSE <<this.value>>
        items == [i \in 1..Len(value) |-> _getWhere(sql, value[i])]
        wheres == [i \in 1..Len(value) |-> items[i].where]
        values == concat([i \in 1..Len(value) |-> items[i].values])
    IN  IF Len(wheres) = 1
        THEN Where(wheres[1], values)
        ELSE Where(<<"(">> \o join(wheres, IF this.type = "and" THEN "AND" ELSE "OR")
                           \o <<")">>, values)

\* _getWhere joining the keys of a plain object with OR.
_getWhereAnyKey(sql, value) ==
    CASE value.t = "query" ->
             LET select == getSelect(value)
             IN  Where(<<"(">> \o select.sql \o <<")">>, select.values)
      [] value.t = "grouping" -> getWhere(value, sql)
      [] value.t = "condition" -> ConditionGetWhere(value, sql)
      [] value.t = "raw" -> Where(value.sql, value.values)
      [] value.t = "object" ->
             getWhere(Grouping("or",
                               Array([i \in 1..Len(value.entries) |->
                                        Condition("equalTo", value.entries[i][1],
                                                  value.entries[i][2])])),
                      sql)
      [] OTHER -> Where(<<"?">>, <<value>>)

\* Grouping.prototype._getWhere
_getWhere(sql, value) ==
    CASE value.t = "query" ->
             LET select == getSelect(value)
             IN  Where(<<"(">> \o select.sql \o <<")">>, select.values)
      [] value.t = "grouping" -> getWhere(value, sql)
      [] value.t = "condition" -> ConditionGetWhere(value, sql)
      [] value.t = "raw" -> Where(value.sql, value.values)
      [] value.t = "object" ->
             getWhere(Grouping("and",
                               Array([i \in 1..Len(value.entries) |->
                                        Condition("equalTo", value.entries[i][1],
                                                  value.entries[i][2])])),
                      sql)
      [] OTHER -> Where(<<"?">>, <<value>>)

---------------------------------------------------------------------------
\* Rendering one Grouping: every Grouping of at most MaxItems items over the
\* item kinds, nested one level, is rendered by getWhere.

SeqsUpTo(S, n) == UNION { [1..k -> S] : k \in 0..n }

Types == {"and", "or"}
Scalars == {Scalar(1), Scalar(2)}
Leaves ==
    Scalars
    \cup {Array(<<Scalar(1), Scalar(2)>>)}
    \cup {Object(<<>>), Object(<< <<"id", Scalar(1)>> >>),
          Object(<< <<"name", Scalar(2)>>, <<"id", Scalar(1)>> >>)}
    \cup {Condition("equalTo", "id", Scalar(2)), Condition("isNull", "name", Scalar(1))}
    \cup {Raw(<<"(SELECT true)">>, <<>>),
          Raw(<<"upper(name)", "=", "?">>, <<Scalar(1)>>)}
    \cup {Subquery("user", <<>>), Subquery("user", << <<"id", Scalar(2)>> >>)}
Inner ==
    { Grouping(type, value) :
        type \in Types,
        value \in Scalars \cup { Array(items) : items \in SeqsUpTo(Scalars, MaxItems) } }
Groupings ==
    { Grouping(type, value) :
        type \in Types,
        value \in (Leaves \ {Array(<<Scalar(1), Scalar(2)>>)}) \cup Inner
                  \cup { Array(items) : items \in SeqsUpTo(Leaves \cup Inner, MaxItems) } }

InitGrouping ==
    /\ queries = [q \in Q |-> NewQuery(q)]
    /\ builders = EmptyBuilders
    /\ pc = [q \in Q |-> "idle"]
    /\ result = [q \in Q |-> NoResult]
    /\ rows = <<>>
    /\ ncalls = 0
    /\ thrown = NoError
    /\ grouping \in Groupings
    /\ rendered = NotRendered
    /\ optionValues = NoValues
    /\ returned = NotCalled
    /\ registry = NoRegistry
    /\ instance = NoInstances

\* grouping.getWhere(sql)
Render ==
    /\ rendered = NotRendered
    /\ rendered' = getWhere(grouping, "user")
    /\ UNCHANGED <<queries, builders, pc, result, rows, ncalls, thrown, grouping,
                   optionValues, returned, registry, instance>>

NextGrouping == Render

SpecGrouping == InitGrouping /\ [][NextGrouping]_vars

---------------------------------------------------------------------------
\* Properties of Grouping (checked under SpecGrouping).

Rendered == rendered # NotRendered

\* The items of the Grouping under render.
Items == IF grouping.value.t = "array" THEN grouping.value.items ELSE <<grouping.value>>

Placeholders(where) == Cardinality({ k \in 1..Len(where) : where[k] = "?" })

\* The text with the tokens a Grouping or a subquery wrapper adds taken out.
Skeleton(where) == SelectSeq(where, LAMBDA tok : tok \notin {"(", ")", "AND", "OR"})

\* The text with its i-th placeholder replaced by the i-th value.
Bind(where, values) ==
    [k \in 1..Len(where) |->
        IF where[k] = "?"
        THEN LET i == Placeholders(SubSeq(where, 1, k))
             IN  IF i <= Len(values) THEN values[i] ELSE [sql |-> "?"]
        ELSE [sql |-> where[k]]]

\* What an item says, read left to right with its values in place.
RECURSIVE Literal(_)
Literal(value) ==
    CASE value.t = "grouping" ->
             LET items == IF value.value.t = "array" THEN value.value.items
                          ELSE <<value.value>>
             IN  concat([i \in 1..Len(items) |-> Literal(items[i])])
      [] value.t = "object" ->
             concat([i \in 1..Len(value.entries) |->
                       <<[sql |-> Column("user", value.entries[i][1])], [sql |-> "="],
                         value.entries[i][2]>>])
      [] value.t = "condition" ->
             LET w == ConditionGetWhere(value, "user") IN Bind(w.where, w.values)
      [] value.t = "raw" -> Bind(Skeleton(value.sql), value.values)
      [] value.t = "query" ->
             LET select == getSelect(value) IN Bind(Skeleton(select.sql), select.values)
      [] OTHER -> <<value>>

C6_WrapOnlyTwoOrMore ==
    Rendered =>
        LET texts == [i \in 1..Len(Items) |-> _getWhere("user", Items[i]).where]
        IN  /\ Len(Items) = 1 => rendered.where = texts[1]
            /\ Len(Items) >= 2 =>
                   rendered.where =
                       <<"(">> \o join(texts, IF grouping.type = "and" THEN "AND" ELSE "OR")
                               \o <<")">>

\* C6 witness: a rendered Grouping of a single scalar given without a list.
C6_Witness ==
    /\ Rendered
    /\ grouping.value.t = "scalar"
    /\ rendered.where = <<"?">>

\* C7: a Grouping whose value is an empty list renders to no text and no
\* parameters.
C7_EmptyListNotRendered ==
    (Rendered /\ grouping.value = Array(<<>>)) =>
        rendered.where = <<>> /\ rendered.values = <<>>

---------------------------------------------------------------------------
\* Options (lib/Options.js): the option setters over this.values.  JavaScript
\* values are records tagged by type; Undefined, Null, Number and Array are
\* the ones above.

Bool(b) == [t |-> "boolean", b |-> b]
Str(s) == [t |-> "string", s |-> s]
NaN == [t |-> "NaN"]

\* !!value
ToBoolean(value) ==
    CASE value.t = "boolean" -> value
      [] value.t = "number" -> Bool(value.n # 0)
      [] value.t = "string" -> Bool(value.s # "")
      [] value.t \in {"undefined", "null", "NaN"} -> Bool(FALSE)
      [] OTHER -> Bool(TRUE)

\* parseInt(value)
ParseInt(value) ==
    CASE value.t = "number" -> value
      [] value.t = "string" /\ value.s = "1" -> Number(1)
      [] value.t = "string" /\ value.s = "2" -> Number(2)
      [] OTHER -> NaN

\* Array.isArray(value) ? value : [value]
ToArray(value) == IF value.t = "array" THEN value ELSE Array(<<value>>)

\* The cast each kind of setter passes to _setOption.
Cast(kind, value) ==
    CASE kind = "boolean" -> ToBoolean(value)
      [] kind = "integer" -> ParseInt(value)
      [] OTHER -> ToArray(value)

\* The setters: <<method, option it stores, kind>>.
Setters ==
    { <<"debug", "debug", "boolean">>, <<"require", "require", "boolean">>,
      <<"batchSize", "batchSize", "integer">>, <<"first", "first", "boolean">>,
      <<"distinct", "distinct", "boolean">>, <<"fields", "fields", "array">>,
      <<"returning", "fields", "array">>, <<"field", "fields", "array">>,
      <<"where", "where", "array">>, <<"having", "having", "array">>,
      <<"groupBy", "groupBy", "array">>, <<"orderBy", "orderBy", "array">>,
      <<"limit", "limit", "integer">>, <<"offset", "offset", "integer">>,
      <<"forUpdate", "forUpdate", "boolean">>, <<"of", "of", "array">>,
      <<"noWait", "noWait", "boolean">> }

\* this.values[option], undefined when never stored
Stored(vals, option) == IF option \in DOMAIN vals THEN vals[option] ELSE Undefined

\* _setOption with an array value stored in place of the earlier ones.
SetOptionOverwriting(vals, option, value, kind) ==
    IF value.t = "undefined" THEN [values |-> vals, returns |-> "this"]
    ELSE IF value.t = "null"
    THEN [values |-> Put(vals, option, Null), returns |-> "undefined"]
    ELSE [values |-> Put(vals, option, Cast(kind, value)), returns |-> "this"]

\* Options.prototype._setOption: the values after the call and what it returns.
_setOption(vals, option, value, kind) ==
    IF value.t = "undefined" THEN [values |-> vals, returns |-> "this"]
    ELSE IF value.t = "null"
    THEN [values |-> Put(vals, option, Null), returns |-> "undefined"]
    ELSE LET v == Cast(kind, value)
             prior == IF Stored(vals, option).t = "array"
                      THEN Stored(vals, option).items ELSE <<>>
         IN  IF v.t = "array"
             THEN [values |-> Put(vals, option, Array(prior \o v.items)),
                   returns |-> "this"]
             ELSE [values |-> Put(vals, option, v), returns |-> "this"]

\* The argument a setter passes on: the boolean setters default theirs to true.
Passed(kind, arg) == IF kind = "boolean" /\ arg.t = "undefined" THEN Bool(TRUE) ELSE arg

\* The arguments tried with each kind of setter.
Args(kind) ==
    CASE kind = "boolean" -> {Undefined, Null, Bool(FALSE), Number(1)}
      [] kind = "integer" -> {Undefined, Null, Number(1), Str("2")}
      [] OTHER -> {Undefined, Null, Str("id"), Array(<<Str("name"), Str("id")>>)}

InitOptions ==
    /\ queries = [q \in Q |-> NewQuery(q)]
    /\ builders = EmptyBuilders
    /\ pc = [q \in Q |-> "idle"]
    /\ result = [q \in Q |-> NoResult]
    /\ rows = <<>>
    /\ ncalls = 0
    /\ thrown = NoError
    /\ grouping = NoGrouping
    /\ rendered = NotRendered
    /\ optionValues = NoValues
    /\ returned = NotCalled
    /\ registry = NoRegistry
    /\ instance = NoInstances

\* options[method](arg)
SetOption(setter, arg) ==
    /\ ncalls < MaxCalls
    /\ ncalls' = ncalls + 1
    /\ LET r == _setOption(optionValues, setter[2], Passed(setter[3], arg), setter[3])
       IN  /\ optionValues' = r.values
           /\ returned' = r.returns
    /\ UNCHANGED <<queries, builders, pc, result, rows, thrown, grouping, rendered, registry,
                   instance>>

NextOptions == \E setter \in Setters : \E arg \in Args(setter[3]) : SetOption(setter, arg)

SpecOptions == InitOptions /\ [][NextOptions]_vars

---------------------------------------------------------------------------
\* Properties of Options (checked under SpecOptions).

\* The items of a stored array option; none when it is unset or null.
StoredItems(vals, option) ==
    IF Stored(vals, option).t = "array" THEN Stored(vals, option).items ELSE <<>>

\* Every option but `option` is stored as before.
OthersKept(option) ==
    /\ DOMAIN optionValues \ {option} = DOMAIN optionValues' \ {option}
    /\ \A o \in DOMAIN optionValues \ {option} : optionValues'[o] = optionValues[o]

\* C18 as claimed: every call of an array-valued option appends to the
\* stored value and drops nothing stored before, every call of a boolean or
\* integer option stores the value of that call, and every call with
\* undefined leaves the stored options as they were.
C18_AppendOrReplace ==
    [][ \A setter \in Setters : \A arg \in Args(setter[3]) :
          SetOption(setter, arg) =>
              IF arg.t = "undefined" THEN optionValues' = optionValues
              ELSE IF setter[3] = "array"
              THEN /\ Len(StoredItems(optionValues', setter[2]))
                         >= Len(StoredItems(optionValues, setter[2]))
                   /\ SubSeq(StoredItems(optionValues', setter[2]), 1,
                             Len(StoredItems(optionValues, setter[2])))
                         = StoredItems(optionValues, setter[2])
              ELSE Stored(optionValues', setter[2]).t \in {"boolean", "number", "NaN", "null"}
      ]_vars

\* C18 as amended: a call with a value other than undefined and null appends
\* it (an array, or the one value) to an array-valued option in call order,
\* keeping what was stored, and replaces a boolean or integer option by the
\* cast value; a call with null stores null in place of whatever was
\* stored; a call with undefined leaves the options as they were, except
\* that a boolean setter, whose parameter defaults to true, stores true.
C18_AppendReplaceOrReset ==
    [][ \A setter \in Setters : \A arg \in Args(setter[3]) :
          SetOption(setter, arg) =>
              /\ OthersKept(setter[2])
              /\ IF arg.t = "undefined"
                 THEN IF setter[3] = "boolean"
                      THEN Stored(optionValues', setter[2]) = Bool(TRUE)
                      ELSE optionValues' = optionValues
                 ELSE IF arg.t = "null"
                 THEN Stored(optionValues', setter[2]) = Null
                 ELSE IF setter[3] = "array"
                 THEN StoredItems(optionValues', setter[2]) =
                          StoredItems(optionValues, setter[2])
                              \o (IF arg.t = "array" THEN arg.items ELSE <<arg>>)
                 ELSE IF setter[3] = "boolean"
                 THEN Stored(optionValues', setter[2]) = ToBoolean(arg)
                 ELSE Stored(optionValues', setter[2]) = ParseInt(arg)
      ]_vars

\* C18 witness: the fields option holds three values from two calls, the
\* later call's values after the earlier call's.
C18_Witness ==
    /\ ncalls = 2
    /\ StoredItems(optionValues, "fields") = <<Str("id"), Str("name"), Str("id")>>

\* C19: every setter call returns the instance it was called on.
C19_SettersReturnThis == returned # NotCalled => returned = "this"

---------------------------------------------------------------------------
\* The option setters of Query (lib/Query.js).  An argument is a JavaScript
\* value: a string, a number, null, a Field instance, an array of values, a
\* plain object (its entries <<key, value>> in insertion order) or an
\* { operator, value } object.  A setter yields the query objects it leaves
\* and the error it throws, NoError when it returns.

FieldValue(field) == [t |-> "field", field |-> field]
Operator(operator, value) == [t |-> "operator", operator |-> operator, value |-> value]

Returns(qs) == [qs |-> qs, error |-> NoError]
Throws(qs, error) == [qs |-> qs, error |-> error]

NoField == Field("", "")

\* The lookup taking any name for a field of the model.
GetFieldUnchecked(model, name) == [field |-> Field(model, name), error |-> NoError]

_getField(model, name) ==
    IF name \in Range(modelFields(model))
    THEN [field |-> Field(model, name), error |-> NoError]
    ELSE [field |-> NoField, error |-> UsageError("Unknown field", model, name)]

_getValidatedField(model, field) ==
    IF field.t = "string"
    THEN _getField(model, field.s)
    ELSE IF field.t # "field"
    THEN [field |-> NoField, error |-> UsageError("Invalid field object", model, field.t)]
    ELSE IF field.field.model # model
    THEN [field |-> NoField,
          error |-> UsageError("is not a field of", model, field.field.name)]
    ELSE [field |-> field.field, error |-> NoError]

\* The options fields() and returning() validate with, and those of
\* groupBy() and on().
AliasExcludingId == [alias |-> TRUE, exclude |-> idField]
NoOptions == [alias |-> FALSE, exclude |-> ""]

\* The entry pushed when no field is excluded.
ValidatedKeepingId(field, alias, options) ==
    IF ~options.alias THEN <<[field |-> field]>>
    ELSE <<[field |-> field, alias |-> alias]>>

\* The entry pushed for a validated field: nothing when it is excluded.
Validated(field, alias, options) ==
    IF options.exclude # "" /\ options.exclude = field.name
    THEN <<>>
    ELSE IF ~options.alias THEN <<[field |-> field]>>
    ELSE <<[field |-> field, alias |-> alias]>>

\* Object.keys of an array: its indices "0", "1", ...
IndexKeys(items) == [i \in 1..Len(items) |-> ToString(i - 1)]

RECURSIVE ValidateKeys(_, _, _, _, _)
RECURSIVE ValidateItems(_, _, _, _, _)

\* The rest of one key of the `isObject(fields)` branch, the key's field
\* looked up as r; the alias is fields[name] when that is a string.
ValidateKey(model, items, options, k, validatedFields, r) ==
    IF r.error # NoError
    THEN [fields |-> validatedFields, error |-> r.error]
    ELSE ValidateKeys(model, items, options, k + 1,
             validatedFields \o
                 Validated(r.field,
                           IF items[k].t = "string" THEN items[k].s ELSE r.field.name,
                           options))

\* The `isObject(fields)` branch from the k-th key on: `fields` is the
\* array being iterated, so the keys are its indices and fields[name] is
\* its item.
ValidateKeys(model, items, options, k, validatedFields) ==
    IF k > Len(items)
    THEN [fields |-> validatedFields, error |-> NoError]
    ELSE ValidateKey(model, items, options, k, validatedFields,
                     _getValidatedField(model, Str(IndexKeys(items)[k])))

\* The rest of fields.forEach(...) after its k-th item gave r.
ValidateNext(model, items, options, k, r) ==
    IF r.error # NoError THEN r
    ELSE ValidateItems(model, items, options, k + 1, r.fields)

\* The k-th item, a string or a Field looked up as r.
ValidateItem(model, items, options, k, validatedFields, r) ==
    IF r.error # NoError
    THEN [fields |-> validatedFields, error |-> r.error]
    ELSE ValidateItems(model, items, options, k + 1,
             validatedFields \o Validated(r.field, r.field.name, options))

\* fields.forEach(...) from the k-th item on
ValidateItems(model, items, options, k, validatedFields) ==
    IF k > Len(items)
    THEN [fields |-> validatedFields, error |-> NoError]
    ELSE IF items[k].t \in {"string", "field"}
    THEN ValidateItem(model, items, options, k, validatedFields,
                      _getValidatedField(model, items[k]))
    ELSE ValidateNext(model, items, options, k,
                      ValidateKeys(model, items, options, 1, validatedFields))

_getValidatedFields(model, fields_, options) ==
    ValidateItems(model, IF fields_.t = "array" THEN fields_.items ELSE <<fields_>>,
                  options, 1, <<>>)

\* this[`_${key}`].push(...validated), unless validating threw
Push(qs, q, key, validated) ==
    IF validated.error # NoError
    THEN Throws(qs, validated.error)
    ELSE Returns([qs EXCEPT ![q][key] = @ \o validated.fields])

_pushValidatedFields(qs, q, key, fields_, options) ==
    Push(qs, q, key, _getValidatedFields(qs[q].model, fields_, options))

\* `this._hasFields = true` or `this._hasReturning = true` after a push
\* that did not throw
Flag(r, q, flag) ==
    IF r.error # NoError THEN r ELSE Returns([r.qs EXCEPT ![q][flag] = TRUE])

fields(qs, q, fields_) ==
    Flag(_pushValidatedFields(qs, q, "_fields", fields_, AliasExcludingId), q, "_hasFields")

returning(qs, q, fields_) ==
    Flag(_pushValidatedFields(qs, q, "_returning", fields_, AliasExcludingId),
         q, "_hasReturning")

groupBy(qs, q, fields_) == _pushValidatedFields(qs, q, "_groupBy", fields_, NoOptions)

on(qs, q, fields_) == _pushValidatedFields(qs, q, "_on", fields_, NoOptions)

RECURSIVE PushEntries(_, _, _, _, _)
\* Object.keys(whereOrHaving).forEach(...) from the k-th key on: every
\* entry before an unknown field name is already pushed when it throws.
PushEntries(qs, q, key, entries, k) ==
    IF k > Len(entries)
    THEN Returns(qs)
    ELSE IF _getField(qs[q].model, entries[k][1]).error # NoError
    THEN Throws(qs, _getField(qs[q].model, entries[k][1]).error)
    ELSE PushEntries(
             [qs EXCEPT ![q][key] =
                 Append(@, [field |-> _getField(qs[q].model, entries[k][1]).field,
                            value |-> entries[k][2]])],
             q, key, entries, k + 1)

_pushWhereOrHaving(qs, q, key, whereOrHaving) ==
    PushEntries(qs, q, key, whereOrHaving.entries, 1)

RECURSIVE PushOrderBy(_, _, _, _)
\* Object.keys(orderBy).forEach(...) from the k-th key on
PushOrderBy(qs, q, entries, k) ==
    IF k > Len(entries)
    THEN Returns(qs)
    ELSE IF _getField(qs[q].model, entries[k][1]).error # NoError
    THEN Throws(qs, _getField(qs[q].model, entries[k][1]).error)
    ELSE PushOrderBy(
             [qs EXCEPT ![q]._orderBy =
                 Append(@, [field |-> _getField(qs[q].model, entries[k][1]).field,
                            direction |-> IF entries[k][2] = Number(1) THEN Str("asc")
                                          ELSE IF entries[k][2] = Number(-1) THEN Str("desc")
                                          ELSE entries[k][2]])],
             q, entries, k + 1)

orderBy(qs, q, orderBy_) == PushOrderBy(qs, q, orderBy_.entries, 1)

\* The integer _limit and _offset hold for a parseInt that gave NaN.
NotANumber == -2

\* parseInt(value) as _limit and _offset hold it
IntOf(value) == IF ParseInt(value) = NaN THEN NotANumber ELSE ParseInt(value).n

limit(qs, q, value) == Returns([qs EXCEPT ![q]._limit = IntOf(value)])
offset(qs, q, value) == Returns([qs EXCEPT ![q]._offset = IntOf(value)])

\* object[key] of a plain object; undefined of anything else
Property(object, key) ==
    IF object.t = "object" /\ \E i \in 1..Len(object.entries) : object.entries[i][1] = key
    THEN object.entries[CHOOSE i \in 1..Len(object.entries) : object.entries[i][1] = key][2]
    ELSE Undefined

\* transaction(transaction, options): the lock flags are read from the
\* first argument when it is an object, from the second otherwise; they are
\* kept here by their truth value, which is all _addTransaction reads.
transaction(qs, q, transaction_, options_) ==
    LET from == IF transaction_.t = "object" THEN transaction_ ELSE options_
    IN  Returns([qs EXCEPT ![q]._transaction =
                    [set |-> TRUE,
                     forUpdate |-> ToBoolean(Property(from, "forUpdate")).b,
                     forShare |-> ToBoolean(Property(from, "forShare")).b]])

\* A boolean setter's parameter: `= true` when the argument is undefined.
Truth(value) == IF value = Undefined THEN TRUE ELSE ToBoolean(value).b

require(qs, q, value) == Returns([qs EXCEPT ![q]._require = Truth(value)])
first(qs, q, value) == Returns([qs EXCEPT ![q]._first = Truth(value)])
as(qs, q, value) == Returns([qs EXCEPT ![q]._as = value.s])

\* A Query instance passed as an argument.
QueryValue(q) == [t |-> "query", q |-> q]

\* Every method of Query.prototype.
Methods ==
    {"constructor", "_getField", "_getValidatedField", "_getValidatedFields",
     "_pushValidatedFields", "fields", "returning", "orderBy", "groupBy", "with",
     "join", "transaction", "within", "_pushWhereOrHaving", "where", "whereNot",
     "orWhere", "orWhereNot", "having", "havingNot", "orHaving", "orHavingNot",
     "options", "require", "limit", "offset", "first", "forge", "as", "on",
     "_getColumn", "_getColumns", "_addTransaction", "_addFields", "_addReturning",
     "_addWhereOrHaving", "_addWhere", "_addWhereNot", "_addOrWhere",
     "_addOrWhereNot", "_addHaving", "_addHavingNot", "_addOrHaving",
     "_addOrHavingNot", "_addOrderBy", "_addGroupBy", "_addLimit", "_addOffset",
     "_addWith", "_getFieldsWithAliases", "_prepareBuilder", "_throw", "count",
     "_hasData", "_parseData", "_parseRows", "_maybeThrowFetchRequireErrors",
     "fetch", "delete", "_getValidatedInstance", "_getRow", "_setData", "insert",
     "update", "save"}

\* option.startsWith('_') over the names in use
StartsWithUnderscore(option) ==
    option \in {"_getField", "_getValidatedField", "_getValidatedFields",
                "_pushValidatedFields", "_pushWhereOrHaving", "_getColumn",
                "_getColumns", "_addTransaction", "_addFields", "_addReturning",
                "_addWhereOrHaving", "_addWhere", "_addWhereNot", "_addOrWhere",
                "_addOrWhereNot", "_addHaving", "_addHavingNot", "_addOrHaving",
                "_addOrHavingNot", "_addOrderBy", "_addGroupBy", "_addLimit",
                "_addOffset", "_addWith", "_getFieldsWithAliases", "_prepareBuilder",
                "_throw", "_hasData", "_parseData", "_parseRows",
                "_maybeThrowFetchRequireErrors", "_getValidatedInstance", "_getRow",
                "_setData", "_private"}

dbMethods == {"count", "fetch", "insert", "update", "save", "delete"}

\* What options() throws: `Unknown option '<name>'` and
\* `'<name>' is not an allowed option`.
OptionError(message, model, name) == UsageError(message, model, name)

RECURSIVE options(_, _, _)
RECURSIVE Invoke(_, _, _, _)
RECURSIVE SetEach(_, _, _, _)

\* `query.isChild = true; query.parent = this; this._with.push(query)`,
\* unless setting the child's options threw
Adopt(r, p, c) == IF r.error # NoError THEN r ELSE Returns(with(r.qs, p, c))

\* with(query, options) for one query
WithQuery(qs, p, c, options_) ==
    IF ~HasReference(qs, p, c)
    THEN Throws(qs, UsageError("has no references to", qs[p].model, qs[c].model))
    ELSE Adopt(IF options_ # Undefined THEN options(qs, c, options_) ELSE Returns(qs),
               p, c)

\* this[option].call(this, value)
Invoke(qs, q, option, value) ==
    CASE option = "fields" -> fields(qs, q, value)
      [] option = "returning" -> returning(qs, q, value)
      [] option = "groupBy" -> groupBy(qs, q, value)
      [] option = "on" -> on(qs, q, value)
      [] option = "orderBy" -> orderBy(qs, q, value)
      [] option = "where" -> _pushWhereOrHaving(qs, q, "_where", value)
      [] option = "whereNot" -> _pushWhereOrHaving(qs, q, "_whereNot", value)
      [] option = "orWhere" -> _pushWhereOrHaving(qs, q, "_orWhere", value)
      [] option = "orWhereNot" -> _pushWhereOrHaving(qs, q, "_orWhereNot", value)
      [] option = "having" -> _pushWhereOrHaving(qs, q, "_having", value)
      [] option = "havingNot" -> _pushWhereOrHaving(qs, q, "_havingNot", value)
      [] option = "orHaving" -> _pushWhereOrHaving(qs, q, "_orHaving", value)
      [] option = "orHavingNot" -> _pushWhereOrHaving(qs, q, "_orHavingNot", value)
      [] option \in {"transaction", "within"} -> transaction(qs, q, value, Undefined)
      [] option \in {"with", "join"} -> WithQuery(qs, q, value.q, Undefined)
      [] option = "require" -> require(qs, q, value)
      [] option = "first" -> first(qs, q, value)
      [] option = "limit" -> limit(qs, q, value)
      [] option = "offset" -> offset(qs, q, value)
      [] option = "as" -> as(qs, q, value)
      [] option = "options" -> options(qs, q, value)
      [] option = "forge" -> Returns(qs)  \* _forge is read by nothing modelled
      [] OTHER -> Throws(qs, [k |-> "error", message |-> "TypeError", model |-> qs[q].model,
                              name |-> option])

\* The keys after the k-th, whose method gave r.
SetNext(r, q, entries, k) ==
    IF r.error # NoError THEN r ELSE SetEach(r.qs, q, entries, k + 1)

\* Object.keys(options).forEach(...) from the k-th key on: the options
\* before a refused key are already set when it throws.
SetEach(qs, q, entries, k) ==
    IF k > Len(entries)
    THEN Returns(qs)
    ELSE IF entries[k][1] \notin Methods
    THEN Throws(qs, OptionError("Unknown option", qs[q].model, entries[k][1]))
    ELSE IF StartsWithUnderscore(entries[k][1]) \/ entries[k][1] \in dbMethods
    THEN Throws(qs, OptionError("is not an allowed option", qs[q].model, entries[k][1]))
    ELSE SetNext(Invoke(qs, q, entries[k][1], entries[k][2]), q, entries, k)

options(qs, q, options_) == SetEach(qs, q, options_.entries, 1)

---------------------------------------------------------------------------
\* The write operations.  `data` is what insert or update is passed, of
\* which its kind and its id matter here: a plain object of the model's
\* fields ("object"), an instance of the query's model ("instance"), a
\* plain object with a name that is no field ("unknown"), an instance of
\* another model ("foreign") or no object at all ("number").

Data(kind, id) == [kind |-> kind, id |-> id]

\* Whether _getValidatedInstance(data) returns an instance: it throws for a
\* non-object and for an instance of another model, and `new
\* this.model(instance)` throws for a name that is no field.
_getValidatedInstance(data) == data.kind \in {"object", "instance"}

\* The operation whose data gives no instance: it rejects with the Error
\* thrown, before anything else.
NoInstance(qs, bs, q) ==
    [qs |-> qs, bs |-> bs, pc |-> "failed", result |-> Rejected("Error", q)]

\* The hooks of an insert that validates ahead of populating the defaults.
InsertHooksValidateFirst == <<"validate", "setDefaults">>

\* The hooks insert calls on the instance ahead of builder.insert():
\* `instance.setDefaults()`, then `await instance.validate(...)`.
InsertHooks == <<"setDefaults", "validate">>

\* The hooks update calls on the instance ahead of builder.update(): no
\* model of the schema has an updatedAt field, whose default alone update
\* populates, so `await instance.validate(...)` only.
UpdateHooks == <<"validate">>

\* insert, up to the await of instance.validate
InsertHead(qs, bs, q, data) ==
    IF ~_getValidatedInstance(data)
    THEN NoInstance(qs, bs, q)
    ELSE Await(qs, bs, q, _prepareBuilder(Compiling(qs, bs), q, InsertOptions, 1),
               <<>>, "insert:validate")

\* update, up to the await of instance.validate
UpdateHead(qs, bs, q, data) ==
    IF ~_getValidatedInstance(data)
    THEN NoInstance(qs, bs, q)
    ELSE Await(qs, bs, q,
               _prepareBuilder(
                   Compiling(IF data.id # UNDEFINED
                             THEN _pushWhereOrHaving(qs, q, "_where",
                                      Object(<<<<idField, Number(data.id)>>>>)).qs
                             ELSE qs,
                             bs),
                   q, UpdateOptions, 1),
               <<>>, "update:validate")

\* The operation of q runs its head h, which calls the hooks on its
\* instance if it comes to its await.
BeginWrite(q, h, hooks) ==
    /\ Begin(q, h)
    /\ instance' = [instance EXCEPT ![q] = IF h.pc \in {"insert:validate", "update:validate"}
                                           THEN hooks ELSE <<>>]

\* delete, up to the await of builder.delete()
DeleteHead(qs, bs, q) ==
    Await(qs, bs, q, _prepareBuilder(Compiling(qs, bs), q, DeleteOptions, 1),
          <<Call("delete", q)>>, "delete")

\* q.insert(data), up to its first await
Insert(q, data) ==
    /\ Idle
    /\ BeginWrite(q, InsertHead(queries, builders, q, data), InsertHooks)
    /\ UNCHANGED <<rows, ncalls, thrown, grouping, rendered, optionValues, returned, registry>>

\* q.update(data), up to its first await
Update(q, data) ==
    /\ Idle
    /\ BeginWrite(q, UpdateHead(queries, builders, q, data), UpdateHooks)
    /\ UNCHANGED <<rows, ncalls, thrown, grouping, rendered, optionValues, returned, registry>>

\* q.delete(), up to its await
Delete(q) ==
    /\ Idle
    /\ Begin(q, DeleteHead(queries, builders, q))
    /\ UNCHANGED <<rows, ncalls, thrown, grouping, rendered, optionValues, returned, registry,
                   instance>>

\* instance.validate and _getRow resolve: builder.insert(row) or
\* builder.update(row) is called and awaited
Write(q) ==
    /\ pc[q] \in {"insert:validate", "update:validate"}
    /\ LET op == IF pc[q] = "insert:validate" THEN "insert" ELSE "update"
       IN  /\ builders' = [builders EXCEPT ![queries[q].builder] = Append(@, Call(op, q))]
           /\ pc' = [pc EXCEPT ![q] = op]
    /\ UNCHANGED <<queries, result, rows, ncalls, thrown, grouping, rendered, optionValues,
                   returned, registry, instance>>

\* instance.validate rejects: insert and update reject with its error
Invalid(q) ==
    /\ pc[q] \in {"insert:validate", "update:validate"}
    /\ pc' = [pc EXCEPT ![q] = "failed"]
    /\ result' = [result EXCEPT ![q] = Rejected("ValidationError", q)]
    /\ UNCHANGED <<queries, builders, rows, ncalls, thrown, grouping, rendered, optionValues,
                   returned, registry, instance>>

\* The error names of a write operation.
WriteError(op) ==
    CASE op = "insert" -> "InsertError"
      [] op = "update" -> "UpdateError"
      [] OTHER -> "DeleteError"

NoRowsError(op) ==
    CASE op = "insert" -> "RowNotInsertedError"
      [] op = "update" -> "RowNotUpdatedError"
      [] OTHER -> "RowNotDeletedError"

\* A write that affected no row resolving to null whatever require is.
NoRowsAlwaysNull(qs, q, op) == Resolved(Null)

\* `if (this._require) { this._throw('RowNot...Error'); } return null;`
NoRows(qs, q, op) ==
    IF qs[q]._require
    THEN [k |-> "rejected", error |-> NoRowsError(op), by |-> q, args |-> <<Undefined>>]
    ELSE Resolved(Null)

\* The rows a write can return: none, or the one row written.
WrittenRows(qs, q) == { <<>>, <<[col \in {<<qs[q].alias, idField>>} |-> 1]>> }

\* the builder's insert, update or delete resolves with rs
WriteResolve(q, rs) ==
    /\ pc[q] \in {"insert", "update", "delete"}
    /\ rows' = rs
    /\ pc' = [pc EXCEPT ![q] = "written"]
    /\ IF Len(rs) = 0
       THEN /\ queries' = queries
            /\ result' = [result EXCEPT ![q] = NoRows(queries, q, pc[q])]
       ELSE IF pc[q] = "delete" /\ Len(queries[q]._with) > 0
       THEN \* the rows of a delete hold no column of a joined child, whose
            \* _hasData then reads Object.values(undefined)
            /\ queries' = Memoize(queries, q, IdOf(queries, q, SplitRow(rs[1])))
            /\ result' = [result EXCEPT ![q] = Rejected("TypeError", q)]
       ELSE IF pc[q] = "delete"
       THEN LET qs == _parseRows(queries, q, rs, 1)
            IN  /\ queries' = qs
                /\ result' = [result EXCEPT ![q] =
                       Resolved(List([k \in 1..Len(qs[q]._parsedRows) |->
                                         Rec(q, qs[q]._parsedRows[k])]))]
       ELSE /\ queries' = queries
            /\ result' = [result EXCEPT ![q] =
                   Resolved(Rec(q, rs[1][<<queries[q].alias, idField>>]))]
    /\ UNCHANGED <<builders, ncalls, thrown, grouping, rendered, optionValues, returned,
                   registry, instance>>

\* the builder's insert, update or delete rejects
WriteReject(q) ==
    /\ pc[q] \in {"insert", "update", "delete"}
    /\ pc' = [pc EXCEPT ![q] = "failed"]
    /\ result' = [result EXCEPT ![q] = _throw(q, WriteError(pc[q]), DriverError)]
    /\ UNCHANGED <<queries, builders, rows, ncalls, thrown, grouping, rendered, optionValues,
                   returned, registry, instance>>

---------------------------------------------------------------------------
\* Writes: the queries of the scenario are joined and marked required,
\* then one of them inserts, updates or deletes.

\* What insert and update are passed.
WriteData ==
    { Data("object", UNDEFINED), Data("object", 1), Data("instance", 1),
      Data("unknown", UNDEFINED), Data("foreign", 1), Data("number", UNDEFINED) }

NextWrites ==
    \/ \E p \in Q, c \in Q : With(p, c)
    \/ \E q \in Q, b \in BOOLEAN : Require(q, b)
    \/ \E q \in Q : \E data \in WriteData : Insert(q, data)
    \/ \E q \in Q : \E data \in WriteData : Update(q, data)
    \/ \E q \in Q : Delete(q)
    \/ \E q \in Q : Write(q)
    \/ \E q \in Q : Invalid(q)
    \/ \E q \in Q : \E rs \in WrittenRows(queries, q) : WriteResolve(q, rs)
    \/ \E q \in Q : WriteReject(q)

SpecWrites == Init /\ [][NextWrites]_vars

---------------------------------------------------------------------------
\* Field arguments: one query of User given valid and invalid field
\* arguments through every field-taking setter, then one operation.

MaxSetters == 2

\* The setters going through _pushValidatedFields.
FieldSetters == {"fields", "returning", "groupBy", "on"}

\* The setters going through _pushWhereOrHaving.
WhereSetters ==
    {"_where", "_whereNot", "_orWhere", "_orWhereNot",
     "_having", "_havingNot", "_orHaving", "_orHavingNot"}

\* Arguments of fields, returning, groupBy and on that name fields of User.
ValidFields ==
    { Str("name"), FieldValue(Field("User", "id")),
      Array(<<Str("name"), Str("id")>>) }

\* An unknown name, a field of another model, a list ending in an unknown
\* name, and an object of field names and aliases.
OtherFields ==
    { Str("bogus"), FieldValue(Field("Image", "id")),
      Array(<<Str("name"), Str("bogus")>>),
      Object(<<<<"name", Str("alias")>>>>),
      Object(<<<<"bogus", Str("alias")>>>>) }

\* Arguments of the where and having setters and of orderBy.
WhereObjects ==
    { Object(<<<<"name", Number(1)>>>>),
      Object(<<<<"name", Number(1)>>, <<"bogus", Number(1)>>>>) }

SetFieldsOf(setter, qs, q, arg) ==
    CASE setter = "fields" -> fields(qs, q, arg)
      [] setter = "returning" -> returning(qs, q, arg)
      [] setter = "groupBy" -> groupBy(qs, q, arg)
      [] OTHER -> on(qs, q, arg)

InitFields ==
    /\ queries = [q \in Q |-> NewQuery(q)]
    /\ builders = EmptyBuilders
    /\ pc = [q \in Q |-> "idle"]
    /\ result = [q \in Q |-> NoResult]
    /\ rows = <<>>
    /\ ncalls = 0
    /\ thrown = NoError
    /\ grouping = NoGrouping
    /\ rendered = NotRendered
    /\ optionValues = NoValues
    /\ returned = NotCalled
    /\ registry = NoRegistry
    /\ instance = NoInstances

\* A setter call that yields r.
Set(r) ==
    /\ Idle
    /\ ncalls < MaxSetters
    /\ ncalls' = ncalls + 1
    /\ queries' = r.qs
    /\ thrown' = r.error
    /\ UNCHANGED <<builders, pc, result, rows, grouping, rendered, optionValues, returned,
                   registry, instance>>

\* q.fields(arg), q.returning(arg), q.groupBy(arg), q.on(arg)
SetFields(q, setter, arg) == Set(SetFieldsOf(setter, queries, q, arg))

\* q.where(arg), ..., q.orHavingNot(arg)
SetWhere(q, key, arg) == Set(_pushWhereOrHaving(queries, q, key, arg))

\* q.orderBy(arg)
SetOrderBy(q, arg) == Set(orderBy(queries, q, arg))

NextFields ==
    \/ \E setter \in FieldSetters, arg \in ValidFields \cup OtherFields :
           SetFields(1, setter, arg)
    \/ \E key \in WhereSetters, arg \in WhereObjects : SetWhere(1, key, arg)
    \/ \E arg \in WhereObjects : SetOrderBy(1, arg)
    \/ Fetch(1)
    \/ \E rs \in ScenarioRows(queries, 1) : FetchResolve(1, rs)
    \/ FetchReject(1)
    \/ \E id \in {UNDEFINED, 1} : Insert(1, Data("object", id))
    \/ \E id \in {UNDEFINED, 1} : Update(1, Data("object", id))
    \/ Delete(1)
    \/ Write(1)
    \/ Invalid(1)
    \/ \E rs \in WrittenRows(queries, 1) : WriteResolve(1, rs)
    \/ WriteReject(1)

SpecFields == InitFields /\ [][NextFields]_vars

---------------------------------------------------------------------------
\* Clauses: a User query and a Message query, which refers to User through
\* senderId and receiverId, are given options and joined either way; then
\* one operation runs.

ClauseQ == {1, 2}

\* where, orWhereNot, groupBy, having, orHavingNot and orderBy, over the
\* four shapes of a where value
Filters ==
    Object(<< <<"where", Object(<<<<"id", Number(1)>>>>)>>,
              <<"orWhereNot", Object(<<<<"id", Null>>>>)>>,
              <<"groupBy", Str("id")>>,
              <<"having", Object(<<<<"id", Operator(">", Number(1))>>>>)>>,
              <<"orHavingNot", Object(<<<<"id", Array(<<Number(1)>>)>>>>)>>,
              <<"orderBy", Object(<<<<"id", Number(-1)>>>>)>> >>)

\* limit, offset and a transaction locking for update
Paging ==
    Object(<< <<"limit", Number(2)>>,
              <<"offset", Str("1")>>,
              <<"transaction",
                Object(<<<<"transaction", Str("trx")>>, <<"forUpdate", Bool(TRUE)>>>>)>> >>)

\* fields, returning, first and a transaction locking for share
Selecting(model) ==
    Object(<< <<"fields", Str(modelFields(model)[2])>>,
              <<"returning", Str(modelFields(model)[2])>>,
              <<"first", Bool(TRUE)>>,
              <<"within",
                Object(<<<<"transaction", Str("trx")>>, <<"forShare", Bool(TRUE)>>>>)>> >>)

\* on: the sender reference, from either end
Only(model) ==
    Object(<< <<"on", Str(IF model = "Message" THEN "senderId" ELSE "id")>> >>)

Bundles(model) == {Filters, Paging, Selecting(model), Only(model)}

\* Options objects whose key is no method, a database method, a private
\* method, or the options method itself.
Refused ==
    { Object(<< <<"foo", Str("bar")>> >>),
      Object(<< <<"fetch", Str("bar")>> >>),
      Object(<< <<"save", Str("bar")>> >>),
      Object(<< <<"_addFields", Str("bar")>> >>),
      Object(<< <<"options", Object(<< <<"first", Bool(TRUE)>> >>)>> >>) }

InitClauses ==
    /\ queries = [q \in Q |-> IF q = 2 THEN Query("Message", q) ELSE NewQuery(q)]
    /\ builders = EmptyBuilders
    /\ pc = [q \in Q |-> "idle"]
    /\ result = [q \in Q |-> NoResult]
    /\ rows = <<>>
    /\ ncalls = 0
    /\ thrown = NoError
    /\ grouping = NoGrouping
    /\ rendered = NotRendered
    /\ optionValues = NoValues
    /\ returned = NotCalled
    /\ registry = NoRegistry
    /\ instance = NoInstances

\* q.options(o)
Options(q, o) == Set(options(queries, q, o))

\* p.with(c, o)
WithOptions(p, c, o) == Set(WithQuery(queries, p, c, o))

NextClauses ==
    \/ \E q \in ClauseQ : \E o \in Bundles(queries[q].model) \cup Refused : Options(q, o)
    \/ \E p \in ClauseQ, c \in ClauseQ :
           \E o \in {Undefined} \cup Bundles(queries[c].model) : WithOptions(p, c, o)
    \/ \E q \in ClauseQ : Fetch(q)
    \/ \E q \in ClauseQ : \E rs \in ScenarioRows(queries, q) : FetchResolve(q, rs)
    \/ \E q \in ClauseQ : FetchReject(q)
    \/ \E q \in ClauseQ : Count(q)
    \/ \E q \in ClauseQ, n \in 0..1 : CountResolve(q, n)
    \/ \E q \in ClauseQ : CountReject(q)
    \/ \E q \in ClauseQ : Insert(q, Data("object", UNDEFINED))
    \/ \E q \in ClauseQ, id \in {UNDEFINED, 1} : Update(q, Data("object", id))
    \/ \E q \in ClauseQ : Delete(q)
    \/ \E q \in ClauseQ : Write(q)
    \/ \E q \in ClauseQ : Invalid(q)
    \/ \E q \in ClauseQ : \E rs \in WrittenRows(queries, q) : WriteResolve(q, rs)
    \/ \E q \in ClauseQ : WriteReject(q)

SpecClauses == InitClauses /\ [][NextClauses]_vars

---------------------------------------------------------------------------
\* Joins in every direction: queries of models that reference one way,
\* themselves, or each other are joined, with or without on(), and one is
\* fetched.

\* The models the queries of one scenario are constructed with.
JoinSchemas ==
    { <<"User", "Image", "Node", "Node">>,
      <<"Account", "Profile", "Message", "User">> }

RECURSIVE QueriesOf(_, _)
\* The query objects 1..n constructed with the models of a scenario; the
\* queries past its last model are of User.
QueriesOf(models, n) ==
    IF n = 0 THEN <<>>
    ELSE Append(QueriesOf(models, n - 1),
                Query(IF n <= Len(models) THEN models[n] ELSE "User", n))

\* { on: name } for every field name of a model
OnOptions(model) ==
    { Object(<< <<"on", Str(modelFields(model)[i])>> >>) : i \in 1..Len(modelFields(model)) }

InitJoins ==
    \E models \in JoinSchemas :
        /\ queries = QueriesOf(models, NQ)
        /\ builders = EmptyBuilders
        /\ pc = [q \in Q |-> "idle"]
        /\ result = [q \in Q |-> NoResult]
        /\ rows = <<>>
        /\ ncalls = 0
        /\ thrown = NoError
        /\ grouping = NoGrouping
        /\ rendered = NotRendered
        /\ optionValues = NoValues
        /\ returned = NotCalled
        /\ registry = NoRegistry
        /\ instance = NoInstances

NextJoins ==
    \/ \E p \in Q, c \in Q :
           \E o \in {Undefined} \cup OnOptions(queries[c].model) : WithOptions(p, c, o)
    \/ \E q \in Q : Fetch(q)
    \/ \E q \in Q : \E rs \in ScenarioRows(queries, q) : FetchResolve(q, rs)
    \/ \E q \in Q : FetchReject(q)

SpecJoins == InitJoins /\ [][NextJoins]_vars

---------------------------------------------------------------------------
\* Properties of the field setters.

\* C11: whatever fields() and returning() calls came before, every column
\* list compiled into the select columns of a fetch and into the returning
\* columns of an insert, update or delete holds the identity column of the
\* query's table at exactly one position.
C11_IdExactlyOnce ==
    \A b \in Q : \A k \in 1..Len(builders[b]) :
        builders[b][k].m \in {"columns", "returning"} =>
            LET call    == builders[b][k]
                columns == call.args.columns
                id      == column(Field(queries[call.q].model, idField))
            IN  Cardinality({ i \in 1..Len(columns) :
                                /\ columns[i].column = id
                                /\ columns[i].of = queries[call.q].alias }) = 1

\* After two setter calls that left fields() set, the fetch compiled the
\* identity column and two others.
C11_Witness ==
    /\ pc[1] = "select"
    /\ ncalls = 2
    /\ queries[1]._hasFields
    /\ \E k \in 1..Len(builders[1]) :
           /\ builders[1][k].m = "columns"
           /\ Len(builders[1][k].args.columns) = 3

\* The names a field argument gives as strings, and the models of the
\* Field instances it gives.
ItemsOf(arg) == IF arg.t = "array" THEN Range(arg.items) ELSE {arg}
NamesOf(arg) ==
    { item.s : item \in { i \in ItemsOf(arg) : i.t = "string" } }
        \cup UNION { { e[1] : e \in Range(item.entries) } :
                       item \in { i \in ItemsOf(arg) : i.t = "object" } }
ModelsOf(arg) ==
    { item.field.model : item \in { i \in ItemsOf(arg) : i.t = "field" } }

\* Whether arg names something that is no field of the model.
Foreign(model, arg) ==
    \/ \E name \in NamesOf(arg) : name \notin Range(modelFields(model))
    \/ \E other \in ModelsOf(arg) : other # model

\* A setter threw a usage error and touched no builder and no operation.
ThrewOnly ==
    /\ thrown'.k = "error"
    /\ thrown'.message \in {"Unknown field", "is not a field of"}
    /\ thrown'.model = queries[1].model
    /\ builders' = builders
    /\ pc' = pc
    /\ result' = result

\* C12: a call of fields, returning, groupBy, on, of a where or having
\* setter or of orderBy whose argument gives a string or an object key that
\* is no field name of the query's model, or a Field of another model,
\* throws a usage error in the setter itself: no builder is called and no
\* operation is started.
C12_ForeignFieldThrows ==
    [][/\ \A setter \in FieldSetters, arg \in ValidFields \cup OtherFields :
             SetFields(1, setter, arg) /\ Foreign(queries[1].model, arg) => ThrewOnly
       /\ \A key \in WhereSetters, arg \in WhereObjects :
             SetWhere(1, key, arg) /\ Foreign(queries[1].model, arg) => ThrewOnly
       /\ \A arg \in WhereObjects :
             SetOrderBy(1, arg) /\ Foreign(queries[1].model, arg) => ThrewOnly]_vars

\* After a valid groupBy, a Field of Image was refused by the User query.
C12_Witness ==
    /\ thrown = UsageError("is not a field of", "User", "id")
    /\ Len(queries[1]._groupBy) = 1
    /\ ncalls = 2
    /\ builders[1] = <<>>

\* C13: fields() and returning() given the object { name: 'alias' }, whose
\* key is a field of the model, throw nothing and add the field name under
\* the output alias 'alias'.
C13_ObjectAddsAliases ==
    [][\A setter \in {"fields", "returning"} :
          SetFields(1, setter, Object(<<<<"name", Str("alias")>>>>)) =>
              /\ thrown' = NoError
              /\ LET key == IF setter = "fields" THEN "_fields" ELSE "_returning"
                 IN  queries'[1][key] =
                         Append(queries[1][key],
                                [field |-> Field("User", "name"), alias |-> "alias"])]_vars

---------------------------------------------------------------------------
\* Properties of the compiled clauses.

\* The fields of model a that reference a field of model b.
ReferenceFields(a, b) ==
    { Field(a, modelFields(a)[i]) :
        i \in { i \in 1..Len(modelFields(a)) :
                  references(Field(a, modelFields(a)[i])).model = b } }

\* The ON pair of reference field f in the join of child c, under the
\* alias it is joined as, to parent p, as <<column of the child, column of
\* the parent>>.
PairOf(f, p, c, alias) ==
    IF f.model = queries[c].model
    THEN <<[of |-> alias, column |-> column(f)],
           [of |-> queries[p].alias, column |-> column(references(f))]>>
    ELSE <<[of |-> alias, column |-> column(references(f))],
           [of |-> queries[p].alias, column |-> column(f)]>>

\* The reference fields between the models of p and c that involve a field
\* the child restricted the join to; all of them when it restricted nothing.
JoinedBy(p, c) ==
    LET all  == ReferenceFields(queries[c].model, queries[p].model)
                    \cup ReferenceFields(queries[p].model, queries[c].model)
        only == { e.field : e \in Range(queries[c]._on) }
    IN  IF only = {} THEN all
        ELSE { f \in all : f \in only \/ references(f) \in only }

\* C15: the ON clause compiled for a joined child holds exactly one column
\* pair for every reference field between the two models that involves a
\* field given to on(), and one for every reference field between them when
\* on() was not called, whichever of the two models holds the reference.
C15_OnPairsComplete ==
    \A b \in Q : \A k \in 1..Len(builders[b]) :
        builders[b][k].m \in {"leftJoin", "innerJoin"} =>
            LET c == builders[b][k].q
                p == queries[c].parent
            IN  Range(builders[b][k].args.on) =
                    { PairOf(f, p, c, builders[b][k].args.as) : f \in JoinedBy(p, c) }

Joins == {"leftJoin", "innerJoin"}

\* The step of _prepareBuilder a builder call belongs to; the call that
\* runs the statement comes last.
Step(m) ==
    CASE m \in {"transacting", "forUpdate", "forShare"} -> 1
      [] m = "returning" -> 2
      [] m \in {"where", "whereNot", "orWhere", "orWhereNot"} -> 3
      [] m = "columns" -> 4
      [] m \in Joins -> 5
      [] m = "groupBy" -> 6
      [] m \in {"having", "havingNot", "orHaving", "orHavingNot"} -> 7
      [] m = "orderBy" -> 8
      [] m = "limit" -> 9
      [] m = "offset" -> 10
      [] OTHER -> 11

\* The query whose _prepareBuilder made a call: a join is made by the
\* parent of the query it joins.
Owner(call) == IF call.m \in Joins THEN queries[call.q].parent ELSE call.q

\* The steps found in the log of builder b.
Steps(b) == { Step(builders[b][k].m) : k \in 1..Len(builders[b]) }

\* Whether the log of builder b holds a call of method m.
Called(b, m) == \E k \in 1..Len(builders[b]) : builders[b][k].m = m

\* C16: within one preparation of a query its builder calls come in the
\* order transaction and locks, returning, where family, columns, joins,
\* group-by, having family, order-by, limit, offset, and the call running
\* the statement last; the calls of a joined child come after its join and
\* before the parent's group-by; an insert makes only the transaction,
\* returning and insert calls, an update or delete those and the where
\* family, a fetch no returning call and a count neither returning nor
\* columns.
C16_ClauseOrder ==
    \A b \in Q :
        /\ \A i \in 1..Len(builders[b]) : \A j \in (i + 1)..Len(builders[b]) :
              LET ci == builders[b][i]
                  cj == builders[b][j]
                  rejoined(x) == \E k \in (i + 1)..j :
                                    builders[b][k].m \in Joins /\ builders[b][k].q = x
              IN  /\ Owner(ci) = Owner(cj) /\ ~rejoined(Owner(ci))
                        => Step(ci.m) <= Step(cj.m)
                  /\ Owner(ci) = queries[Owner(cj)].parent /\ Step(ci.m) >= 6
                        => rejoined(Owner(ci))
        /\ pc[b] = "insert:validate" \/ Called(b, "insert") => Steps(b) \subseteq {1, 2, 11}
        /\ pc[b] = "update:validate" \/ Called(b, "update") \/ Called(b, "delete")
              => Steps(b) \subseteq {1, 2, 3, 11}
        /\ Called(b, "select") => 2 \notin Steps(b)
        /\ Called(b, "count") => Steps(b) \cap {2, 4} = {}

\* A fetch compiled a join, then an order-by of the joined child, then the
\* group-by of the root.
C16_Witness ==
    /\ pc[1] = "select"
    /\ \E i \in 1..Len(builders[1]) : \E j \in (i + 1)..Len(builders[1]) :
           \E k \in (j + 1)..Len(builders[1]) :
               /\ builders[1][i].m \in Joins /\ builders[1][i].q = 2
               /\ builders[1][j].m = "orderBy" /\ builders[1][j].q = 2
               /\ builders[1][k].m = "groupBy" /\ builders[1][k].q = 1

\* C17: limit, offset, transacting, forUpdate and forShare are called on a
\* builder at most once each, by the query the builder belongs to and with
\* that query's own limit and offset, never by a query marked as a child;
\* and after a fetch or count every query of the join tree holds the
\* builder of the query the operation ran on.
C17_RootOnlyOptions ==
    \A b \in Q :
        /\ \A k \in 1..Len(builders[b]) :
              LET call == builders[b][k]
              IN  call.m \in {"limit", "offset", "transacting", "forUpdate", "forShare"} =>
                      /\ call.q = b
                      /\ ~queries[b].isChild
                      /\ \A j \in 1..Len(builders[b]) : builders[b][j].m = call.m => j = k
                      /\ call.m = "limit" => call.args.limit = queries[b]._limit
                      /\ call.m = "offset" => call.args.offset = queries[b]._offset
                      /\ call.m # "limit" /\ call.m # "offset" => queries[b]._transaction.set
        /\ \A k \in 1..Len(builders[b]) : queries[builders[b][k].q].builder = b
        /\ Called(b, "select") \/ Called(b, "count") =>
              \A x \in Tree(queries, b, NQ) : queries[x].builder = b

\* The root and its joined child were both given a limit, an offset and a
\* locking transaction, and the fetch compiled the root's.
C17_Witness ==
    /\ pc[1] = "select"
    /\ queries[2].isChild /\ queries[2].parent = 1
    /\ queries[2]._limit = 2 /\ queries[2]._offset = 1 /\ queries[2]._transaction.forUpdate
    /\ Called(1, "limit") /\ Called(1, "offset")
    /\ Called(1, "transacting") /\ Called(1, "forUpdate")
    /\ builders[2] = <<>>

\* C20: options() given an object whose key is no method of Query throws
\* `Unknown option '<key>'`, and given one whose key names a database
\* method, a private method or options itself throws `'<key>' is not an
\* allowed option`; either way no method is invoked and the query is left
\* as it was.
C20_OptionsRefused ==
    [][\A q \in ClauseQ, o \in Refused :
          Options(q, o) =>
              LET name == o.entries[1][1]
              IN  /\ thrown' = OptionError(IF name \in Methods
                                           THEN "is not an allowed option"
                                           ELSE "Unknown option",
                                           queries[q].model, name)
                  /\ queries' = queries]_vars

---------------------------------------------------------------------------
\* Properties of the ON pairs.

\* Every field of the schema that references another.
ForeignKeys ==
    { f \in UNION { { Field(m, modelFields(m)[i]) : i \in 1..Len(modelFields(m)) } :
                    m \in ModelNames } : references(f).name # "" }

\* The ON pair <<column of the child, column of the parent>> equates
\* foreign key f, as a column of the query whose model owns it, with the
\* field it references, as a column of the other query.
Equates(pair, f, p, c) ==
    \/ /\ queries[c].model = f.model
       /\ pair[1].column = column(f)
       /\ pair[2].column = column(references(f))
    \/ /\ queries[p].model = f.model
       /\ pair[2].column = column(f)
       /\ pair[1].column = column(references(f))

\* C26: in every compiled join each ON pair holds the column of a foreign
\* key under the alias of the query whose model owns that field and the
\* column of the field it references under the alias of the other query,
\* whether the child's model holds the reference, the parent's does, both
\* are the same model, or each references the other.
C26_OnPairsQualified ==
    \A b \in Q : \A k \in 1..Len(builders[b]) :
        builders[b][k].m \in {"leftJoin", "innerJoin"} =>
            \A i \in 1..Len(builders[b][k].args.on) :
                LET pair == builders[b][k].args.on[i]
                    c    == builders[b][k].q
                IN  /\ pair[1].of = builders[b][k].args.as
                    /\ \A p \in Q :
                           (/\ \E n \in 1..Len(queries[p]._with) : queries[p]._with[n] = c
                            /\ queries[p].builder = b
                            /\ queries[p].alias = pair[2].of) =>
                               \E f \in ForeignKeys : Equates(pair, f, p, c)

\* The same for the queries whose models do not reference each other.
OnPairsQualifiedOneWay ==
    \A b \in Q : \A k \in 1..Len(builders[b]) :
        builders[b][k].m \in {"leftJoin", "innerJoin"} =>
            \A i \in 1..Len(builders[b][k].args.on) :
                LET pair == builders[b][k].args.on[i]
                    c    == builders[b][k].q
                IN  /\ pair[1].of = builders[b][k].args.as
                    /\ \A p \in Q :
                           (/\ \E n \in 1..Len(queries[p]._with) : queries[p]._with[n] = c
                            /\ queries[p].builder = b
                            /\ queries[p].alias = pair[2].of
                            /\ queries[p].model \notin {"Account", "Profile"}) =>
                               \E f \in ForeignKeys : Equates(pair, f, p, c)

---------------------------------------------------------------------------
\* Properties of the row parser on repeated rows.

\* The query objects with nothing parsed yet.
Unparsed(qs) ==
    [x \in DOMAIN qs |-> [qs[x] EXCEPT !._parsedRows = <<>>, !._parsedData = EmptyMap]]

\* C25: a fetch whose result is the same flat row twice in a row leaves
\* every query of the join tree with the records it has after that row
\* once: a child's key keeps its single record.
C25_RepeatedRowIdempotent ==
    \A q \in Q :
        (Parsed(q) /\ Len(rows) = 2 /\ rows[1] = rows[2]) =>
            \A x \in Tree(queries, q, NQ) :
                /\ queries[x]._parsedData =
                       _parseRows(Unparsed(queries), q, <<rows[1]>>, 1)[x]._parsedData
                /\ queries[x]._parsedRows =
                       _parseRows(Unparsed(queries), q, <<rows[1]>>, 1)[x]._parsedRows

---------------------------------------------------------------------------
\* The schema reference graph: Field.prototype.setReference and setModel.
\* registry.model and registry.target are the fields' `model` and
\* `references`; registry.references holds the entries
\* Model.references[key][name] = field of every model, and
\* registry.referenced the buckets Model.referenced[key][name] = fields.

\* The fields of the Field tests: id and createdAt of User, userId1 and
\* userId2 of Image; UserImage is the model a field is re-assigned to.
RegistryFields == {"id", "createdAt", "userId1", "userId2"}
RegistryModels == {"User", "Image", "UserImage"}

NoReference == ""

\* The model a field is constructed with.
ConstructedWith(f) == IF f \in {"id", "createdAt"} THEN "User" ELSE "Image"

\* Model.referenced[key][name] of model m; empty when it is not set.
Bucket(reg, m, key, name) ==
    LET set == { e \in reg.referenced : e.model = m /\ e.key = key /\ e.name = name }
    IN  IF set = {} THEN <<>> ELSE (CHOOSE e \in set : TRUE).fields

\* The buckets with Model.referenced[key][name] of model m set to fields_;
\* a bucket left empty is deleted.
PutBucket(buckets, m, key, name, fields_) ==
    { e \in buckets : ~(e.model = m /\ e.key = key /\ e.name = name) }
        \cup (IF fields_ = <<>> THEN {}
              ELSE {[model |-> m, key |-> key, name |-> name, fields |-> fields_]})

\* The entries with Model.references[key][name] of model m set to field.
PutEntry(entries, m, key, name, field) ==
    { e \in entries : ~(e.model = m /\ e.key = key /\ e.name = name) }
        \cup {[model |-> m, key |-> key, name |-> name, field |-> field]}

\* The edge of a field that references another: stored on its own model's
\* references under the target's model name, and appended to the target
\* model's referenced under its own model name, in the bucket of the
\* target field's name.
AddReference(reg, a) ==
    IF reg.target[a] = NoReference
    THEN reg
    ELSE [reg EXCEPT
             !.references = PutEntry(@, reg.model[a], reg.model[reg.target[a]], a,
                                     reg.target[a]),
             !.referenced = PutBucket(@, reg.model[reg.target[a]], reg.model[a],
                                      reg.target[a],
                                      Append(Bucket(reg, reg.model[reg.target[a]],
                                                    reg.model[a], reg.target[a]), a))]

\* a.setReference(b)
setReference(reg, a, b) == AddReference([reg EXCEPT !.target[a] = b], a)

\* The entries of field a deleted from the maps kept under the name of
\* the model it belongs to.
RemoveReference(reg, a) ==
    [reg EXCEPT
        !.references = { e \in @ : ~(e.model = reg.model[a] /\ e.name = a) },
        !.referenced =
            { e \in { [x EXCEPT !.fields =
                          IF x.key = reg.model[a]
                          THEN SelectSeq(x.fields, LAMBDA f : f # a)
                          ELSE x.fields] : x \in @ } : e.fields # <<>> }]

\* The entries that hold field a as the referenced field, moved from model
\* old to model new.
MoveReferenced(reg, a, old, new) ==
    [reg EXCEPT
        !.references = { IF e.field = a /\ e.key = old THEN [e EXCEPT !.key = new] ELSE e :
                         e \in @ },
        !.referenced = { IF e.name = a /\ e.model = old THEN [e EXCEPT !.model = new] ELSE e :
                         e \in @ }]

\* setModel leaving the entries under the old model in place.
SetModelKeepingEntries(reg, a, model) == AddReference([reg EXCEPT !.model[a] = model], a)

\* a.setModel(model): the entries of a are deleted from the maps of the
\* model it belonged to and recreated in those of the model it now has.
setModel(reg, a, model) ==
    AddReference(
        MoveReferenced([RemoveReference(reg, a) EXCEPT !.model[a] = model],
                       a, reg.model[a], model),
        a)

\* The fields constructed without a reference.
InitRegistry ==
    /\ queries = NewQueries(NQ)
    /\ builders = EmptyBuilders
    /\ pc = [q \in Q |-> "idle"]
    /\ result = [q \in Q |-> NoResult]
    /\ rows = <<>>
    /\ ncalls = 0
    /\ thrown = NoError
    /\ grouping = NoGrouping
    /\ rendered = NotRendered
    /\ optionValues = NoValues
    /\ returned = NotCalled
    /\ registry = [model |-> [f \in RegistryFields |-> ConstructedWith(f)],
                   target |-> [f \in RegistryFields |-> NoReference],
                   references |-> {}, referenced |-> {}]
    /\ instance = NoInstances

\* a.setReference(b), on a field whose reference is not yet configured
SetReference(a, b) ==
    /\ ncalls < MaxCalls
    /\ registry.target[a] = NoReference
    /\ a # b
    /\ ncalls' = ncalls + 1
    /\ registry' = setReference(registry, a, b)
    /\ UNCHANGED <<queries, builders, pc, result, rows, thrown, grouping, rendered,
                   optionValues, returned, instance>>

\* a.setModel(model)
SetModel(a, model) ==
    /\ ncalls < MaxCalls
    /\ ncalls' = ncalls + 1
    /\ registry' = setModel(registry, a, model)
    /\ UNCHANGED <<queries, builders, pc, result, rows, thrown, grouping, rendered,
                   optionValues, returned, instance>>

NextRegistry ==
    \/ \E a \in RegistryFields, b \in RegistryFields : SetReference(a, b)
    \/ \E a \in RegistryFields, model \in RegistryModels : SetModel(a, model)

SpecRegistry == InitRegistry /\ [][NextRegistry]_vars

\* The fields of sequence s.
Members(s) == { s[i] : i \in 1..Len(s) }

\* C24: for every field a that references a field b, the referenced map
\* of b's model holds a in the bucket of b's name under the name of a's
\* model, and the references map of a's model holds b for a's name under
\* the name of b's model, so that fields referencing the same field are
\* all kept; and a field is held by the derived maps only under the name
\* of the model it now belongs to.
C24_DerivedMapsFollowFields ==
    \A a \in RegistryFields :
        /\ registry.target[a] # NoReference =>
               /\ a \in Members(Bucket(registry, registry.model[registry.target[a]],
                                       registry.model[a], registry.target[a]))
               /\ \E e \in registry.references :
                      /\ e.model = registry.model[a]
                      /\ e.key = registry.model[registry.target[a]]
                      /\ e.name = a
                      /\ e.field = registry.target[a]
        /\ \A e \in registry.references : e.name = a => e.model = registry.model[a]
        /\ \A e \in registry.referenced : a \in Members(e.fields) => e.key = registry.model[a]

\* userId1 and userId2 both reference id, and userId1 was re-assigned to
\* UserImage: each sits in the bucket of its own model.
C24_Witness ==
    /\ registry.target["userId1"] = "id"
    /\ registry.target["userId2"] = "id"
    /\ registry.model["userId1"] = "UserImage"
    /\ Bucket(registry, "User", "UserImage", "id") = <<"userId1">>
    /\ Bucket(registry, "User", "Image", "id") = <<"userId2">>

---------------------------------------------------------------------------
\* Properties of the operations' failures.

\* The builder call that runs the statement of an operation, by the
\* operation error of its verb.
TerminalOf(error) ==
    CASE error = "FetchError" -> "select"
      [] error = "CountError" -> "first"
      [] error = "InsertError" -> "insert"
      [] error = "UpdateError" -> "update"
      [] OTHER -> "delete"

OperationErrors == {"FetchError", "CountError", "InsertError", "UpdateError", "DeleteError"}

\* How many calls of method m the log of builder b holds.
TimesCalled(b, m) == Cardinality({ k \in 1..Len(builders[b]) : builders[b][k].m = m })

\* What a rejected terminal call leaves behind, the query carried by the
\* error aside: the error of the verb made from the driver error, one
\* terminal call, no parsed row.
RejectionWraps(q) ==
    /\ result[q].k = "rejected"
    /\ result[q].args[1] = DriverError
    /\ TimesCalled(queries[q].builder, TerminalOf(result[q].error)) = 1
    /\ \A x \in Q : queries[x]._parsedRows = <<>>
    /\ rows = <<>>

\* C21: an operation whose terminal builder call rejected is rejected with
\* the operation error of its verb, made from the driver error and
\* carrying the query that failed; the terminal call was made once, and no
\* row was parsed.
C21_RejectionCarriesQuery ==
    \A q \in Q :
        (pc[q] = "failed" /\ result[q].error \in OperationErrors) =>
            /\ RejectionWraps(q)
            /\ \E i \in 1..Len(result[q].args) : result[q].args[i] = QueryValue(q)

\* The same without the query carried by the error.
RejectionWrapsDriverError ==
    \A q \in Q :
        (pc[q] = "failed" /\ result[q].error \in OperationErrors) => RejectionWraps(q)

\* The last call in the log of the builder of q; no call when it is empty.
LastCall(q) ==
    LET log == builders[queries[q].builder]
    IN  IF Len(log) = 0 THEN "" ELSE log[Len(log)].m

\* C22: an insert, update or delete whose statement affected no row
\* resolves to null when require is not set and rejects with the no-rows
\* error of its verb when it is; one whose statement failed rejects with
\* the operation error of its verb, whatever require is.
C22_NoRowsAndRequire ==
    \A q \in Q :
        /\ (pc[q] = "written" /\ rows = <<>>) =>
               IF queries[q]._require
               THEN /\ result[q].k = "rejected"
                    /\ result[q].error =
                           CASE LastCall(q) = "insert" -> "RowNotInsertedError"
                             [] LastCall(q) = "update" -> "RowNotUpdatedError"
                             [] LastCall(q) = "delete" -> "RowNotDeletedError"
               ELSE result[q] = Resolved(Null)
        /\ (pc[q] = "failed" /\ LastCall(q) \in {"insert", "update", "delete"}) =>
               /\ result[q].k = "rejected"
               /\ result[q].error =
                      CASE LastCall(q) = "insert" -> "InsertError"
                        [] LastCall(q) = "update" -> "UpdateError"
                        [] LastCall(q) = "delete" -> "DeleteError"

\* A required update that updated no row rejected with the no-rows error
\* of update.
C22_Witness ==
    /\ pc[1] = "written" /\ rows = <<>> /\ queries[1]._require
    /\ LastCall(1) = "update"
    /\ result[1].k = "rejected" /\ result[1].error = "RowNotUpdatedError"

---------------------------------------------------------------------------
\* Properties of a joined fetch.

\* Every call of method m in any builder's log, as <<builder, position>>.
CallsOf(m) ==
    UNION { { <<b, k>> : k \in { i \in 1..Len(builders[b]) : builders[b][i].m = m } } :
            b \in Q }

\* C23: a fetch over joins of any depth runs select once, on the builder
\* of the fetched query: every query of its join tree compiles into that
\* builder, each joined query by one join call per place it holds in the
\* tree, and no other builder is called at all.
C23_OneSelect ==
    \A q \in Q :
        pc[q] \in {"select", "fetched"} =>
            /\ CallsOf("select") = { <<queries[q].builder, Len(builders[queries[q].builder])>> }
            /\ \A x \in Tree(queries, q, NQ) :
                   /\ queries[x].builder = queries[q].builder
                   /\ x # q => \E k \in 1..Len(builders[queries[q].builder]) :
                                   /\ builders[queries[q].builder][k].m \in Joins
                                   /\ builders[queries[q].builder][k].q = x
            /\ \A b \in Q \ {queries[q].builder} : builders[b] = <<>>

\* A fetch over a join of depth two awaits its one select.
C23_Witness ==
    \E q \in Q, c \in Q, d \in Q :
        /\ pc[q] = "select"
        /\ queries[q]._with = <<c>>
        /\ queries[c]._with = <<d>>
        /\ Cardinality({q, c, d}) = 3
        /\ Cardinality(CallsOf("leftJoin")) = 2

---------------------------------------------------------------------------
\* Properties of the hooks ahead of a write.

\* The builder call m of query q's operation has been made.
Invoked(q, m) ==
    \E b \in Q : \E k \in 1..Len(builders[b]) : builders[b][k] = Call(m, q)

\* C27: builder.insert() and builder.update() are invoked only after the
\* instance was validated, and on insert after its defaults were populated
\* and then validated; an operation that rejected with the validation's
\* error, or with the error of building the instance from the data, has
\* invoked neither.
C27_HooksBeforeWrite ==
    \A q \in Q :
        /\ Invoked(q, "insert") =>
               /\ instance[q] = <<"setDefaults", "validate">>
               /\ pc[q] \in {"insert", "written", "failed"}
        /\ Invoked(q, "update") =>
               /\ Len(instance[q]) > 0
               /\ instance[q][Len(instance[q])] = "validate"
               /\ pc[q] \in {"update", "written", "failed"}
        /\ (result[q].k = "rejected" /\ result[q].error \in {"ValidationError", "Error"}) =>
               /\ ~Invoked(q, "insert")
               /\ ~Invoked(q, "update")

\* An insert whose instance was given defaults and validated has called
\* builder.insert().
C27_Witness ==
    \E q \in Q :
        /\ pc[q] = "insert"
        /\ Invoked(q, "insert")
        /\ instance[q] = <<"setDefaults", "validate">>

\* An insert rejected by the validation, and one rejected for its data.
RejectedUnwritten ==
    \E q \in Q : result[q].k = "rejected" /\ result[q].error \in {"ValidationError", "Error"}

---------------------------------------------------------------------------
\* Properties of plain objects in a Grouping (checked under SpecGrouping).

\* `user.id = ?` for every key of a plain object, in key order
KeyConditions(object) ==
    [i \in 1..Len(object.entries) |-> <<Column("user", object.entries[i][1]), "=", "?">>]

\* The text of a plain object: its key conditions joined with AND, in
\* parentheses unless there is one.
ObjectWhere(object) ==
    IF Len(object.entries) = 1
    THEN KeyConditions(object)[1]
    ELSE <<"(">> \o join(KeyConditions(object), "AND") \o <<")">>

\* The values of a plain object in key order.
ObjectValues(object) == [i \in 1..Len(object.entries) |-> object.entries[i][2]]

\* The text and the values of an item that is a plain object or a scalar.
ItemWhere(item) == IF item.t = "object" THEN ObjectWhere(item) ELSE <<"?">>
ItemValues(item) == IF item.t = "object" THEN ObjectValues(item) ELSE <<item>>

\* The Grouping under render holds plain objects, beside scalars at most.
OfObjects ==
    /\ \E i \in 1..Len(Items) : Items[i].t = "object"
    /\ \A i \in 1..Len(Items) : Items[i].t \in {"object", "scalar"}

\* C28: a Grouping of plain objects, of type and or or, renders every
\* object as the AND of one `column = ?` per key in key order and binds the
\* keys' values in that order; the Grouping's type joins the items only.
C28_ObjectsRenderAsAnd ==
    (Rendered /\ OfObjects) =>
        /\ rendered.where =
               IF Len(Items) = 1
               THEN ItemWhere(Items[1])
               ELSE <<"(">> \o join([i \in 1..Len(Items) |-> ItemWhere(Items[i])],
                                    IF grouping.type = "and" THEN "AND" ELSE "OR")
                           \o <<")">>
        /\ rendered.values = concat([i \in 1..Len(Items) |-> ItemValues(Items[i])])

\* An or Grouping of two objects, one of two keys, has been rendered.
C28_Witness ==
    /\ Rendered
    /\ grouping.type = "or"
    /\ Len(Items) = 2
    /\ Items[1].t = "object"
    /\ Len(Items[1].entries) = 2
    /\ Items[2].t = "object"

---------------------------------------------------------------------------
\* Properties of a setter that throws.

\* C29: a call of an option setter that throws a usage error leaves the
\* options of every query as they were before the call.
C29_FailedSetterLeavesOptions ==
    [][(ncalls' = ncalls + 1 /\ thrown' # NoError) => queries' = queries]_vars

\* A call that throws removes nothing recorded by the calls before it: every
\* list of the options still starts with what it held.
FailedSetterKeepsEarlierEntries ==
    [][(ncalls' = ncalls + 1 /\ thrown' # NoError) =>
          \A q \in Q : \A key \in WhereSetters \cup {"_orderBy", "_fields", "_with"} :
              /\ Len(queries'[q][key]) >= Len(queries[q][key])
              /\ SubSeq(queries'[q][key], 1, Len(queries[q][key])) = queries[q][key]]_vars

---------------------------------------------------------------------------
\* Properties of the child relation.

\* The queries below q: its children and theirs.
Descendants(q) ==
    UNION { Tree(queries, queries[q]._with[k], NQ) : k \in 1..Len(queries[q]._with) }

\* C30: whatever with() calls were made, no query is its own child or
\* descendant, and no operation exhausts the call stack compiling or
\* parsing over the children.
C30_ChildrenAreForest ==
    \A q \in Q :
        /\ q \notin Descendants(q)
        /\ pc[q] # "overflow"

\* The operations of queries that are not below themselves do come to
\* their end.
ForestsCompile ==
    \A q \in Q : pc[q] = "overflow" => \E p \in Tree(queries, q, NQ) : p \in Descendants(p)

=============================================================================
